---- MODULE Spec2Model ----
(***************************************************************************)
(* RUDE.AI dialogue engine (rudeai/conversation_handler.py): a table of    *)
(* conversation sessions, each a six-state machine driven by               *)
(* process_user_input, with start_session, reset_session and the two       *)
(* read-only queries; and the log creator it calls at intake               *)
(* (rudeai/log_creator.py, rudeai/log_format.py), with the regular         *)
(* expressions it matches.  A Python str is a sequence of one-character    *)
(* strings, so that lower(), strip(), `in`, += and re are computed as the  *)
(* code computes them.  An Optional value is a sequence of length 0 or 1.  *)
(***************************************************************************)
EXTENDS Integers, Sequences, FiniteSets, TLC

VARIABLES sessions, now, last

vars == <<sessions, now, last>>

----------------------------------------------------------------------------
(* Bounds of the model *)

\* the wall clock runs from minute 0 to minute MaxClock
MaxClock == 1

\* at most MaxHistory interactions are recorded in the session table
MaxHistory == 5

\* the same in the session-table specification
MaxTableHistory == 4

\* the same in the clock specification
MaxClockHistory == 4

\* the hours of the day a log is created in run from 0 to MaxHour
MaxHour == 23

----------------------------------------------------------------------------
(* Python values *)

None == <<>>

Some(v) == <<v>>

Max(a, b) == IF a >= b THEN a ELSE b

Min(a, b) == IF a <= b THEN a ELSE b

UpperCase == <<"A","B","C","D","E","F","G","H","I","J","K","L","M",
               "N","O","P","Q","R","S","T","U","V","W","X","Y","Z">>

LowerCase == <<"a","b","c","d","e","f","g","h","i","j","k","l","m",
               "n","o","p","q","r","s","t","u","v","w","x","y","z">>

Whitespace == {" ", "\n", "\t", "\r"}

\* str.lower() on one character
LowerChar(c) ==
    IF \E i \in 1..26 : UpperCase[i] = c
    THEN LowerCase[CHOOSE i \in 1..26 : UpperCase[i] = c]
    ELSE c

\* the character of the callers' texts whose lower case is two characters:
\* "\u0130".lower() == "i\u0307"
CapitalIDot == "U+0130"

CombiningDot == "U+0307"

\* how many of the first i characters of s are U+0130
DottedUpTo(s, i) == Cardinality({k \in 1..i : s[k] = CapitalIDot})

\* the character of s that the j-th character of s.lower() comes from
SourceOf(s, j) ==
    CHOOSE i \in 1..Len(s) :
        (i - 1) + DottedUpTo(s, i - 1) < j /\ j <= i + DottedUpTo(s, i)

\* the j-th character of s.lower(), which comes from s[i]
LowerAt(s, j, i) ==
    IF s[i] # CapitalIDot THEN LowerChar(s[i])
    ELSE IF j = i + DottedUpTo(s, i) THEN CombiningDot
    ELSE "i"

\* str.lower()
Lower(s) ==
    IF DottedUpTo(s, Len(s)) = 0 THEN [i \in 1..Len(s) |-> LowerChar(s[i])]
    ELSE [j \in 1..(Len(s) + DottedUpTo(s, Len(s))) |-> LowerAt(s, j, SourceOf(s, j))]

\* str.strip()
Strip(s) ==
    LET keep == {i \in 1..Len(s) : s[i] \notin Whitespace}
    IN  IF keep = {} THEN <<>>
        ELSE LET lo == CHOOSE i \in keep : \A j \in keep : i <= j
                 hi == CHOOSE i \in keep : \A j \in keep : j <= i
             IN  SubSeq(s, lo, hi)

\* Python's `sub in s` on strings
Contains(sub, s) ==
    \E i \in 1..(Len(s) - Len(sub) + 1) : SubSeq(s, i, i + Len(sub) - 1) = sub

\* Python's `x in list`
InList(x, list) == \E i \in 1..Len(list) : list[i] = x

\* list[:n]
Take(list, n) == SubSeq(list, 1, Min(n, Len(list)))

\* "\n".join(lines)
RECURSIVE JoinLines(_)
JoinLines(lines) ==
    IF Len(lines) = 0 THEN <<>>
    ELSE IF Len(lines) = 1 THEN lines[1]
    ELSE lines[1] \o <<"\n">> \o JoinLines(Tail(lines))

\* the two characters of the code's texts outside ASCII, one element each
EnDash == "U+2013"

EmDash == "U+2014"

\* str.upper() on one character
UpperChar(c) ==
    IF \E i \in 1..26 : LowerCase[i] = c
    THEN UpperCase[CHOOSE i \in 1..26 : LowerCase[i] = c]
    ELSE c

\* str.capitalize()
Capitalize(s) ==
    IF s = <<>> THEN s ELSE <<UpperChar(s[1])>> \o Lower(Tail(s))

\* str.startswith(prefix)
StartsWith(prefix, s) == Len(prefix) <= Len(s) /\ SubSeq(s, 1, Len(prefix)) = prefix

\* s[a:b] for 0 <= a and 0 <= b
Slice(s, a, b) == SubSeq(s, a + 1, Min(b, Len(s)))

\* the position of the first occurrence of sub in s at or after position from
\* (str.find(sub, from - 1) + 1), 0 if there is none
Find(sub, s, from) ==
    LET at == {i \in from..(Len(s) - Len(sub) + 1) : SubSeq(s, i, i + Len(sub) - 1) = sub}
    IN  IF at = {} THEN 0 ELSE CHOOSE i \in at : \A j \in at : i <= j

\* the k-th smallest element of a set of numbers
Kth(set, k) == CHOOSE p \in set : Cardinality({q \in set : q < p}) = k - 1

\* str.split(sep) for a one-character separator
Split(s, sep) ==
    LET at == {i \in 1..Len(s) : s[i] = sep}
        n == Cardinality(at)
        cut(k) == IF k = 0 THEN 0 ELSE IF k = n + 1 THEN Len(s) + 1 ELSE Kth(at, k)
    IN  [k \in 1..(n + 1) |-> SubSeq(s, cut(k - 1) + 1, cut(k) - 1)]

\* str.split()
SplitWhitespace(s) ==
    LET starts == {i \in 1..Len(s) :
                      s[i] \notin Whitespace /\ (i = 1 \/ s[i - 1] \in Whitespace)}
        last_of(lo) == CHOOSE j \in lo..Len(s) :
                          /\ j = Len(s) \/ s[j + 1] \in Whitespace
                          /\ \A m \in lo..j : s[m] \notin Whitespace
    IN  [k \in 1..Cardinality(starts) |->
            SubSeq(s, Kth(starts, k), last_of(Kth(starts, k)))]

----------------------------------------------------------------------------
(* Python's re module, for the constructs log_creator.py uses.              *)
(* A pattern is a sequence of nodes; a position is an index into the        *)
(* string, 1..Len(s)+1.  Matching returns the end positions of all the ways *)
(* a pattern matches at a position, in the order the backtracking matcher   *)
(* tries them, so the first one is the match re reports.  Lists are         *)
(* concatenated by halving and matches collected by doubling, which keeps   *)
(* the depth of an evaluation logarithmic in the length of the string.      *)

\* a run of literal characters
Lit(chars) == [op |-> "lit", chars |-> chars]

\* . (any character except a newline)
AnyChar == [op |-> "any"]

\* [...] and [^...]
OneOf(set) == [op |-> "in", set |-> set, negate |-> FALSE]

NoneOf(set) == [op |-> "in", set |-> set, negate |-> TRUE]

\* \s
Space == OneOf(Whitespace)

\* \b
WordBoundary == [op |-> "boundary"]

\* a|b|c : alts is a sequence of patterns
Alt(alts) == [op |-> "branch", alts |-> alts]

\* (?:word|word|word)
Words(words) == Alt([k \in 1..Len(words) |-> <<Lit(words[k])>>])

\* (...) and (?:...)
Group(body) == [op |-> "group", body |-> body]

\* x? x* x+ (greedy) and x*? (lazy); max = Unbounded for * and +
Repeat(min, max, greedy, body) ==
    [op |-> "repeat", min |-> min, max |-> max, greedy |-> greedy, body |-> body]

Unbounded == -1

\* \w
IsWordChar(c) ==
    \/ \E i \in 1..26 : UpperCase[i] = c \/ LowerCase[i] = c
    \/ c \in {"0","1","2","3","4","5","6","7","8","9","_"}

IsWordAt(s, i) == i >= 1 /\ i <= Len(s) /\ IsWordChar(s[i])

\* the least element of a set of numbers
MinOf(set) == CHOOSE i \in set : \A j \in set : i <= j

RECURSIVE FlattenRange(_, _, _)
FlattenRange(seqs, lo, hi) ==
    IF lo > hi THEN <<>>
    ELSE IF lo = hi THEN seqs[lo]
    ELSE FlattenRange(seqs, lo, (lo + hi) \div 2)
         \o FlattenRange(seqs, (lo + hi) \div 2 + 1, hi)

\* the concatenation of a sequence of sequences, in order
Flatten(seqs) == FlattenRange(seqs, 1, Len(seqs))

\* a node that matches exactly one character
IsCharNode(node) == node.op \in {"any", "in"}

MatchChar(node, c) ==
    IF node.op = "any" THEN c # "\n" ELSE (c \in node.set) # node.negate

\* where the run of characters a one-character node matches from i on ends
RunEnd(node, s, i) ==
    IF \A j \in i..Len(s) : MatchChar(node, s[j]) THEN Len(s) + 1
    ELSE MinOf({j \in i..Len(s) : ~MatchChar(node, s[j])})

\* the positions from min_end to max_end: a greedy repeat tries the
\* farthest first, a lazy one the nearest
RunEnds(min_end, max_end, greedy) ==
    IF min_end > max_end THEN <<>>
    ELSE [n \in 1..(max_end - min_end + 1) |->
             IF greedy THEN max_end - n + 1 ELSE min_end + n - 1]

\* a repeat of a one-character node at i
MatchRun(node, s, i) ==
    RunEnds(i + node.min,
            IF node.max = Unbounded THEN RunEnd(node.body[1], s, i)
            ELSE Min(RunEnd(node.body[1], s, i), i + node.max),
            node.greedy)

\* the ends that lie beyond i (an iteration of a repeat must consume)
Beyond(ends, i) == SelectSeq(ends, LAMBDA e : e > i)

RECURSIVE MatchNode(_, _, _)
RECURSIVE MatchRepeat(_, _, _, _)
RECURSIVE Advance(_, _, _, _)
RECURSIVE MatchSeq(_, _, _)

\* the ends of the nodes from the k-th on, tried from each of the positions
\* in turn
Advance(nodes, k, s, positions) ==
    IF k > Len(nodes) THEN positions
    ELSE Advance(nodes, k + 1, s,
                 Flatten([j \in 1..Len(positions) |->
                             MatchNode(nodes[k], s, positions[j])]))

\* the ends of the matches of a pattern at position i
MatchSeq(nodes, s, i) == Advance(nodes, 1, s, <<i>>)

\* the repeat goes on from each end of the iteration it has just made
Iterate(node, s, count, ends) ==
    Flatten([n \in 1..Len(ends) |-> MatchRepeat(node, s, ends[n], count)])

\* a repeat that has made count iterations and stands at i: a greedy one
\* tries another iteration before stopping, a lazy one stops first
MatchRepeat(node, s, i, count) ==
    IF node.greedy
    THEN (IF node.max = Unbounded \/ count < node.max
          THEN Iterate(node, s, count + 1, Beyond(MatchSeq(node.body, s, i), i))
          ELSE <<>>)
         \o (IF count >= node.min THEN <<i>> ELSE <<>>)
    ELSE (IF count >= node.min THEN <<i>> ELSE <<>>)
         \o (IF node.max = Unbounded \/ count < node.max
             THEN Iterate(node, s, count + 1, Beyond(MatchSeq(node.body, s, i), i))
             ELSE <<>>)

MatchNode(node, s, i) ==
    CASE node.op = "lit" ->
            IF /\ i + Len(node.chars) - 1 <= Len(s)
               /\ SubSeq(s, i, i + Len(node.chars) - 1) = node.chars
            THEN <<i + Len(node.chars)>> ELSE <<>>
      [] IsCharNode(node) ->
            IF i <= Len(s) /\ MatchChar(node, s[i]) THEN <<i + 1>> ELSE <<>>
      [] node.op = "boundary" ->
            IF IsWordAt(s, i - 1) # IsWordAt(s, i) THEN <<i>> ELSE <<>>
      [] node.op = "branch" ->
            Flatten([n \in 1..Len(node.alts) |-> MatchSeq(node.alts[n], s, i)])
      [] node.op = "group" -> MatchSeq(node.body, s, i)
      [] node.op = "repeat" ->
            IF Len(node.body) = 1 /\ IsCharNode(node.body[1])
            THEN MatchRun(node, s, i)
            ELSE MatchRepeat(node, s, i, 0)

\* a match object: start is m.start() + 1, end is m.end() + 1
Match(start, end) == [start |-> start, end |-> end]

\* match.group()
MatchGroup(s, match) == SubSeq(s, match.start, match.end - 1)

\* the match at the leftmost of the positions where the pattern matches, or
\* None
LeftmostMatch(pattern, s, starts) ==
    IF starts = {} THEN None
    ELSE Some(Match(MinOf(starts), Head(MatchSeq(pattern, s, MinOf(starts)))))

\* the leftmost match that starts at position from or later, or None
SearchFrom(pattern, s, from) ==
    LeftmostMatch(pattern, s,
                  {i \in from..(Len(s) + 1) : MatchSeq(pattern, s, i) # <<>>})

\* re.search(pattern, s)
re_search(pattern, s) == SearchFrom(pattern, s, 1)

\* where the scan goes on after a match
NextStart(match) == IF match.end = match.start THEN match.end + 1 ELSE match.end

RECURSIVE FindUpTo(_, _, _, _)
RECURSIVE FindMore(_, _, _, _)

\* the first 2^k matches, given the first 2^(k-1) of them
FindMore(pattern, s, k, first) ==
    IF Len(first) < 2^(k - 1) THEN first
    ELSE first \o FindUpTo(pattern, s, NextStart(first[Len(first)]), k - 1)

\* the first 2^k matches that start at position from or later, left to
\* right and without overlap (all of them, if there are fewer)
FindUpTo(pattern, s, from, k) ==
    IF k = 0 THEN SearchFrom(pattern, s, from)
    ELSE FindMore(pattern, s, k, FindUpTo(pattern, s, from, k - 1))

RECURSIVE Doublings(_)
\* the least k with 2^k >= n
Doublings(n) == IF n <= 1 THEN 0 ELSE 1 + Doublings((n + 1) \div 2)

\* re.finditer(pattern, s): a string has at most Len(s) + 1 matches
re_finditer(pattern, s) == FindUpTo(pattern, s, 1, Doublings(Len(s) + 1))

\* match.group() of each match
MatchGroups(s, matches) == [k \in 1..Len(matches) |-> MatchGroup(s, matches[k])]

\* re.findall(pattern, s) for a pattern without capturing groups
re_findall(pattern, s) == MatchGroups(s, re_finditer(pattern, s))

\* the string with each match replaced
Replace(matches, repl, s) ==
    Flatten([k \in 1..(Len(matches) + 1) |->
                IF k <= Len(matches)
                THEN SubSeq(s, IF k = 1 THEN 1 ELSE matches[k - 1].end,
                            matches[k].start - 1) \o repl
                ELSE SubSeq(s, IF k = 1 THEN 1 ELSE matches[k - 1].end, Len(s))])

\* re.sub(pattern, repl, s) for a replacement without group references
re_sub(pattern, repl, s) == Replace(re_finditer(pattern, s), repl, s)

----------------------------------------------------------------------------
(* datetime: the clock `now` counts minutes from 00:00 of August 27, 2025 *)

Digits == <<"0","1","2","3","4","5","6","7","8","9">>

\* a number below 100 printed with two digits (%H, %M, %d)
TwoDigits(n) == <<Digits[(n \div 10) + 1], Digits[(n % 10) + 1]>>

Hour(t) == (t \div 60) % 24

Minute(t) == t % 60

DayOfMonth(t) == 27 + (t \div 1440)

\* datetime.now().strftime('%H%M')
strftime_HHMM(t) == TwoDigits(Hour(t)) \o TwoDigits(Minute(t))

\* timestamp.strftime("%B %d, %Y")
strftime_BdY(t) ==
    <<"A","u","g","u","s","t"," ">> \o TwoDigits(DayOfMonth(t))
        \o <<",", " ", "2","0","2","5">>

\* timestamp.strftime("%Y-%m-%d")
strftime_Ymd(t) ==
    <<"2","0","2","5","-","0","8","-">> \o TwoDigits(DayOfMonth(t))

\* the description without its last branch
_format_time_description_NoNight(t) ==
    IF 5 <= Hour(t) /\ Hour(t) < 12 THEN <<"M","o","r","n","i","n","g">>
    ELSE IF 12 <= Hour(t) /\ Hour(t) < 17 THEN <<"A","f","t","e","r","n","o","o","n">>
    ELSE <<"E","v","e","n","i","n","g">>

_format_time_description(t) ==
    IF 5 <= Hour(t) /\ Hour(t) < 12 THEN <<"M","o","r","n","i","n","g">>
    ELSE IF 12 <= Hour(t) /\ Hour(t) < 17 THEN <<"A","f","t","e","r","n","o","o","n">>
    ELSE IF 17 <= Hour(t) /\ Hour(t) < 21 THEN <<"E","v","e","n","i","n","g">>
    ELSE <<"N","i","g","h","t">>

get_time_of_day(t) ==
    IF 5 <= Hour(t) /\ Hour(t) < 12 THEN <<"m","o","r","n","i","n","g">>
    ELSE IF 12 <= Hour(t) /\ Hour(t) < 17 THEN <<"a","f","t","e","r","n","o","o","n">>
    ELSE <<"e","v","e","n","i","n","g">>

get_header_format(t) == strftime_BdY(t) \o <<" ">> \o _format_time_description(t)

----------------------------------------------------------------------------
(* String constants of conversation_handler.py *)

affirmative_words ==
    << <<"y","e","s">>,
       <<"y">>,
       <<"y","e","a","h">>,
       <<"y","e","p">>,
       <<"c","o","r","r","e","c","t">>,
       <<"r","i","g","h","t">>,
       <<"a","c","c","u","r","a","t","e">>,
       <<"t","r","u","e">>,
       <<"o","k">>,
       <<"o","k","a","y">> >>

negative_words ==
    << <<"n","o">>,
       <<"n">>,
       <<"n","o","p","e">>,
       <<"w","r","o","n","g">>,
       <<"i","n","c","o","r","r","e","c","t">>,
       <<"i","n","a","c","c","u","r","a","t","e">>,
       <<"f","a","l","s","e">> >>

report_indicators ==
    << <<"r","e","p","o","r","t">>,
       <<"a","n","a","l","y","s","i","s">>,
       <<"p","a","t","t","e","r","n","s">>,
       <<"t","r","i","g","g","e","r","s">>,
       <<"s","u","m","m","a","r","y">>,
       <<"s","h","o","w"," ","m","e">>,
       <<"w","h","a","t"," ","a","r","e"," ","m","y">>,
       <<"m","y"," ","p","a","t","t","e","r","n","s">>,
       <<"a","n","a","l","y","t","i","c","s">> >>

\* "Log is closed."
RespClosed ==
    <<"L","o","g"," ","i","s"," ","c","l","o","s","e","d",".">>

\* "System error. Provide situation details."
RespSystemError ==
    <<"S","y","s","t","e","m"," ","e","r","r","o","r","."," ","P","r","o","v","i","d",
      "e"," ","s","i","t","u","a","t","i","o","n"," ","d","e","t","a","i","l","s",".">>

\* "Are you override-ready?"
RespOverrideReady ==
    <<"A","r","e"," ","y","o","u"," ","o","v","e","r","r","i","d","e","-","r","e","a",
      "d","y","?">>

\* "Log discarded. Provide situation details."
RespDiscarded ==
    <<"L","o","g"," ","d","i","s","c","a","r","d","e","d","."," ","P","r","o","v","i",
      "d","e"," ","s","i","t","u","a","t","i","o","n"," ","d","e","t","a","i","l","s",
      ".">>

\* "Confirm log accuracy? Yes or no."
RespConfirmAgain ==
    <<"C","o","n","f","i","r","m"," ","l","o","g"," ","a","c","c","u","r","a","c","y",
      "?"," ","Y","e","s"," ","o","r"," ","n","o",".">>

\* "Are you override-ready? Yes or no."
RespOverrideReadyAgain ==
    <<"A","r","e"," ","y","o","u"," ","o","v","e","r","r","i","d","e","-","r","e","a",
      "d","y","?"," ","Y","e","s"," ","o","r"," ","n","o",".">>

\* "Did the override sequence resolve the emotional state?"
RespDidResolve ==
    <<"D","i","d"," ","t","h","e"," ","o","v","e","r","r","i","d","e"," ","s","e","q",
      "u","e","n","c","e"," ","r","e","s","o","l","v","e"," ","t","h","e"," ","e","m",
      "o","t","i","o","n","a","l"," ","s","t","a","t","e","?">>

\* "Trigger pattern analysis not yet implemented. Provide situation details."
RespNotImplemented ==
    <<"T","r","i","g","g","e","r"," ","p","a","t","t","e","r","n"," ","a","n","a","l",
      "y","s","i","s"," ","n","o","t"," ","y","e","t"," ","i","m","p","l","e","m","e",
      "n","t","e","d","."," ","P","r","o","v","i","d","e"," ","s","i","t","u","a","t",
      "i","o","n"," ","d","e","t","a","i","l","s",".">>

\* "Situation logged. ID: "
StrSituationLogged ==
    <<"S","i","t","u","a","t","i","o","n"," ","l","o","g","g","e","d","."," ","I","D",
      ":"," ">>

\* "\n\nConfirm log accuracy?"
StrConfirmAccuracy ==
    <<"\n","\n","C","o","n","f","i","r","m"," ","l","o","g"," ","a","c","c","u","r","a",
      "c","y","?">>

\* "Override sequence:\n\n"
StrOverrideSequence ==
    <<"O","v","e","r","r","i","d","e"," ","s","e","q","u","e","n","c","e",":","\n","\n">>

\* "\n\nExecute sequence. Report completion status."
StrExecuteSequence ==
    <<"\n","\n","E","x","e","c","u","t","e"," ","s","e","q","u","e","n","c","e","."," ",
      "R","e","p","o","r","t"," ","c","o","m","p","l","e","t","i","o","n"," ","s","t",
      "a","t","u","s",".">>

\* "\n\nOverride Result: "
StrOverrideResult ==
    <<"\n","\n","O","v","e","r","r","i","d","e"," ","R","e","s","u","l","t",":"," ">>

----------------------------------------------------------------------------
(* String constants of log_creator.py *)

\* "Emotional situation requiring processing"
GenericSituation ==
    <<"E","m","o","t","i","o","n","a","l"," ","s","i","t","u","a","t","i","o","n"," ",
      "r","e","q","u","i","r","i","n","g"," ","p","r","o","c","e","s","s","i","n","g">>

\* "Emotional activation detected"
GenericSomatic ==
    <<"E","m","o","t","i","o","n","a","l"," ","a","c","t","i","v","a","t","i","o","n",
      " ","d","e","t","e","c","t","e","d">>

\* "Internal emotional response activation"
GenericTrigger ==
    <<"I","n","t","e","r","n","a","l"," ","e","m","o","t","i","o","n","a","l"," ","r",
      "e","s","p","o","n","s","e"," ","a","c","t","i","v","a","t","i","o","n">>

\* "Emotional activation involving "
StrEmotionalActivationInvolving ==
    <<"E","m","o","t","i","o","n","a","l"," ","a","c","t","i","v","a","t","i","o","n",
      " ","i","n","v","o","l","v","i","n","g"," ">>

\* " response pattern"
StrResponsePattern ==
    <<" ","r","e","s","p","o","n","s","e"," ","p","a","t","t","e","r","n">>

\* the bullet of a response line (an en dash and a space)
StrBullet ==
    <<EnDash," ">>

\* "and "
StrAnd ==
    <<"a","n","d"," ">>

\* _extract_emotional_context: emotional_words, in the order .items() visits them
emotional_words ==
    <<
      [emotion |-> <<"a","n","x","i","e","t","y">>,
       variants |->
         << <<"a","n","x","i","o","u","s">>,
            <<"w","o","r","r","i","e","d">>,
            <<"n","e","r","v","o","u","s">>,
            <<"s","t","r","e","s","s">>,
            <<"p","a","n","i","c">> >>],
      [emotion |-> <<"a","n","g","e","r">>,
       variants |->
         << <<"a","n","g","r","y">>,
            <<"m","a","d">>,
            <<"f","u","r","i","o","u","s">>,
            <<"f","r","u","s","t","r","a","t","e","d">>,
            <<"i","r","r","i","t","a","t","e","d">> >>],
      [emotion |-> <<"g","u","i","l","t">>,
       variants |->
         << <<"g","u","i","l","t","y">>,
            <<"s","h","a","m","e">>,
            <<"a","s","h","a","m","e","d">>,
            <<"e","m","b","a","r","r","a","s","s","e","d">> >>],
      [emotion |-> <<"f","e","a","r">>,
       variants |->
         << <<"s","c","a","r","e","d">>,
            <<"a","f","r","a","i","d">>,
            <<"f","e","a","r","f","u","l">>,
            <<"t","e","r","r","i","f","i","e","d">> >>],
      [emotion |-> <<"s","a","d","n","e","s","s">>,
       variants |->
         << <<"s","a","d">>,
            <<"d","e","p","r","e","s","s","e","d">>,
            <<"d","o","w","n">>,
            <<"h","o","p","e","l","e","s","s">> >>]
    >>

break_points ==
    << <<"."," ">>,
       <<"!"," ">>,
       <<"?"," ">>,
       <<" ","a","n","d"," ">>,
       <<" ","b","u","t"," ">>,
       <<" ","s","o"," ">> >>

\* _generate_insight: pattern_indicators, in the order .items() visits them
pattern_indicators ==
    <<
      [pattern_name |-> "sunk_cost",
       keywords |->
         << <<"m","o","n","e","y">>,
            <<"c","o","s","t">>,
            <<"w","a","s","t","e">>,
            <<"s","p","e","n","t">>,
            <<"p","a","i","d">>,
            <<"d","o","l","l","a","r">>,
            <<"p","r","i","c","e">>,
            <<"e","x","p","e","n","s","i","v","e">>,
            <<"w","a","s","t","e","d">>,
            <<"s","t","u","p","i","d">> >>],
      [pattern_name |-> "anticipatory_vigilance",
       keywords |->
         << <<"c","h","e","c","k","i","n","g">>,
            <<"m","e","s","s","a","g","e">>,
            <<"p","h","o","n","e">>,
            <<"r","e","a","d">>,
            <<"d","e","l","i","v","e","r","e","d">>,
            <<"s","t","a","t","u","s">>,
            <<"r","e","s","p","o","n","s","e">>,
            <<"l","o","o","k","e","d">>,
            <<"t","i","m","e","s">> >>],
      [pattern_name |-> "emotional_pendulum",
       keywords |->
         << <<"a","n","g","e","r">>,
            <<"g","u","i","l","t">>,
            <<"r","e","c","o","n","c","i","l">>,
            <<"r","e","a","c","h"," ","o","u","t">>,
            <<"a","p","o","l","o","g","i","z","e">>,
            <<"s","o","r","r","y">>,
            <<"c","o","n","f","l","i","c","t">>,
            <<"a","r","g","u","m","e","n","t">>,
            <<"f","i","g","h","t">> >>],
      [pattern_name |-> "compliance_reflex",
       keywords |->
         << <<"t","h","a","n","k">>,
            <<"g","r","a","t","e","f","u","l">>,
            <<"o","b","l","i","g","e","d">>,
            <<"s","h","o","u","l","d">>,
            <<"h","a","v","e"," ","t","o">>,
            <<"n","e","e","d"," ","t","o">>,
            <<"s","u","p","p","o","s","e","d"," ","t","o">> >>],
      [pattern_name |-> "boundary_violation",
       keywords |->
         << <<"i","n","t","e","r","r","u","p","t">>,
            <<"u","n","e","x","p","e","c","t","e","d">>,
            <<"u","n","a","n","n","o","u","n","c","e","d">>,
            <<"w","i","t","h","o","u","t">>,
            <<"p","e","r","m","i","s","s","i","o","n">>,
            <<"s","u","d","d","e","n","l","y">> >>],
      [pattern_name |-> "performance_anxiety",
       keywords |->
         << <<"p","r","e","s","e","n","t","a","t","i","o","n">>,
            <<"i","n","t","e","r","v","i","e","w">>,
            <<"m","e","e","t","i","n","g">>,
            <<"t","o","m","o","r","r","o","w">>,
            <<"p","e","r","f","o","r","m","a","n","c","e">>,
            <<"s","p","e","a","k">>,
            <<"p","r","e","s","e","n","t">>,
            <<"w","o","k","e"," ","u","p">>,
            <<"m","i","n","d"," ","r","a","c","i","n","g">> >>],
      [pattern_name |-> "family_dynamics",
       keywords |->
         << <<"f","a","t","h","e","r">>,
            <<"m","o","t","h","e","r">>,
            <<"s","i","s","t","e","r">>,
            <<"p","a","r","e","n","t">>,
            <<"f","a","m","i","l","y">>,
            <<"r","e","l","a","t","i","v","e">> >>],
      [pattern_name |-> "financial_anxiety",
       keywords |->
         << <<"p","a","y","m","e","n","t">>,
            <<"t","r","a","n","s","a","c","t","i","o","n">>,
            <<"m","o","n","e","y">>,
            <<"b","a","n","k">>,
            <<"d","e","p","o","s","i","t">>,
            <<"t","r","a","n","s","f","e","r">> >>]
    >>

\* _generate_pattern_insight, 'sunk_cost'
InsightSunkCost ==
    <<"T","h","e"," ","e","m","o","t","i","o","n","a","l"," ","r","e","s","p","o","n",
      "s","e"," ","i","s"," ","n","o","t"," ","a","b","o","u","t"," ","t","h","e"," ",
      "s","p","e","c","i","f","i","c"," ","c","o","s","t",EmDash,"i","t","'","s"," ",
      "a"," ","p","r","o","x","y"," ","f","o","r"," ","i","n","h","e","r","i","t","e",
      "d"," ","e","x","p","e","c","t","a","t","i","o","n","s"," ","o","f"," ","s","e",
      "l","f","-","p","u","n","i","s","h","m","e","n","t"," ","w","h","e","n"," ","r",
      "e","s","o","u","r","c","e","s"," ","a","r","e"," ","p","e","r","c","e","i","v",
      "e","d"," ","a","s"," ","w","a","s","t","e","d","."," ","Y","o","u","r"," ","s",
      "y","s","t","e","m"," ","c","o","n","f","l","a","t","e","s"," ","m","o","n","e",
      "t","a","r","y"," ","l","o","s","s"," ","w","i","t","h"," ","p","e","r","s","o",
      "n","a","l"," ","f","a","i","l","u","r","e","."," ","N","o","t","h","i","n","g",
      " ","i","s"," ","w","a","s","t","e","d"," ","i","f"," ","i","t"," ","p","r","o",
      "t","e","c","t","s"," ","y","o","u","r"," ","n","e","r","v","o","u","s"," ","s",
      "y","s","t","e","m"," ","e","q","u","i","l","i","b","r","i","u","m",".">>

\* _generate_pattern_insight, 'anticipatory_vigilance'
InsightAnticipatoryVigilance ==
    <<"T","h","i","s"," ","d","e","m","o","n","s","t","r","a","t","e","s"," ","a","n",
      "t","i","c","i","p","a","t","o","r","y"," ","v","i","g","i","l","a","n","c","e",
      ":"," ","m","o","n","i","t","o","r","i","n","g"," ","e","x","t","e","r","n","a",
      "l"," ","r","e","s","p","o","n","s","e","s"," ","a","s"," ","a"," ","f","o","r",
      "m"," ","o","f"," ","e","m","o","t","i","o","n","a","l"," ","c","o","n","t","r",
      "o","l"," ","a","n","d"," ","s","e","l","f","-","p","r","o","t","e","c","t","i",
      "o","n","."," ","T","h","e"," ","c","h","e","c","k","i","n","g"," ","b","e","h",
      "a","v","i","o","r"," ","s","u","b","s","t","i","t","u","t","e","s"," ","a","c",
      "t","i","o","n"," ","f","o","r"," ","o","u","t","c","o","m","e"," ","c","e","r",
      "t","a","i","n","t","y","."," ","Y","o","u"," ","a","r","e"," ","b","u","i","l",
      "d","i","n","g"," ","i","n","t","e","r","n","a","l"," ","e","q","u","i","l","i",
      "b","r","i","u","m"," ","r","a","t","h","e","r"," ","t","h","a","n"," ","o","u",
      "t","s","o","u","r","c","i","n","g"," ","i","t"," ","t","o"," ","o","t","h","e",
      "r","s","'"," ","r","e","s","p","o","n","s","e","s",".">>

\* _generate_pattern_insight, 'emotional_pendulum'
InsightEmotionalPendulum ==
    <<"T","h","i","s"," ","s","h","o","w","s"," ","t","h","e"," ","e","m","o","t","i",
      "o","n","a","l"," ","p","e","n","d","u","l","u","m",EmDash,"i","n","t","e","n",
      "s","i","t","y"," ","s","w","i","n","g","s"," ","b","e","t","w","e","e","n"," ",
      "r","u","p","t","u","r","e"," ","a","n","d"," ","r","e","p","a","i","r","."," ",
      "T","h","e"," ","g","u","i","l","t"," ","i","m","p","u","l","s","e"," ","f","u",
      "n","c","t","i","o","n","s"," ","a","s"," ","a","n"," ","a","t","t","e","m","p",
      "t"," ","t","o"," ","r","e","s","t","o","r","e"," ","c","o","n","n","e","c","t",
      "i","o","n"," ","a","t"," ","t","h","e"," ","c","o","s","t"," ","o","f"," ","b",
      "o","u","n","d","a","r","y"," ","i","n","t","e","g","r","i","t","y","."," ","A",
      "n","g","e","r"," ","c","r","e","a","t","e","s"," ","i","l","l","u","s","i","o",
      "n"," ","o","f"," ","p","o","w","e","r",";"," ","g","u","i","l","t"," ","c","r",
      "e","a","t","e","s"," ","i","l","l","u","s","i","o","n"," ","o","f"," ","r","e",
      "s","t","o","r","a","t","i","o","n","."," ","T","o","g","e","t","h","e","r"," ",
      "t","h","e","y"," ","f","o","r","m"," ","a"," ","l","o","o","p"," ","t","h","a",
      "t"," ","a","v","o","i","d","s"," ","a","u","t","h","e","n","t","i","c"," ","p",
      "r","o","c","e","s","s","i","n","g",".">>

\* _generate_pattern_insight, 'compliance_reflex'
InsightComplianceReflex ==
    <<"T","h","i","s"," ","i","s"," ","a","u","t","o","n","o","m","i","c"," ","c","o",
      "m","p","l","i","a","n","c","e"," ","r","e","f","l","e","x","."," ","Y","o","u",
      "r"," ","s","y","s","t","e","m"," ","r","e","g","i","s","t","e","r","s"," ","t",
      "e","m","p","o","r","a","r","y"," ","r","e","l","i","e","f"," ","a","s"," ","r",
      "e","l","a","t","i","o","n","s","h","i","p"," ","r","e","p","a","i","r",","," ",
      "b","y","p","a","s","s","i","n","g"," ","t","h","e"," ","o","r","i","g","i","n",
      "a","l"," ","b","o","u","n","d","a","r","y"," ","b","r","e","a","c","h","."," ",
      "W","h","e","n"," ","g","r","a","t","i","t","u","d","e"," ","o","v","e","r","r",
      "i","d","e","s"," ","m","e","m","o","r","y"," ","o","r"," ","c","a","u","t","i",
      "o","n",","," ","i","t"," ","b","e","c","o","m","e","s"," ","c","o","m","p","u",
      "l","s","i","v","e"," ","a","p","p","e","a","s","e","m","e","n","t","."," ","T",
      "r","u","e"," ","a","p","p","r","e","c","i","a","t","i","o","n"," ","d","o","e",
      "s"," ","n","o","t"," ","r","e","q","u","i","r","e"," ","a","b","a","n","d","o",
      "n","i","n","g"," ","d","i","s","c","e","r","n","m","e","n","t",".">>

\* _generate_pattern_insight, 'boundary_violation'
InsightBoundaryViolation ==
    <<"G","r","a","t","i","t","u","d","e"," ","b","e","c","a","m","e"," ","b","e","h",
      "a","v","i","o","r","a","l"," ","r","e","s","i","d","u","e"," ","f","r","o","m",
      " ","p","a","s","t"," ","b","o","u","n","d","a","r","y"," ","b","r","e","a","c",
      "h","e","s",EmDash,"a","n"," ","o","v","e","r","c","o","m","p","e","n","s","a",
      "t","i","o","n"," ","s","t","r","a","t","e","g","y"," ","f","o","r"," ","d","i",
      "s","c","o","m","f","o","r","t"," ","i","n"," ","a","s","y","m","m","e","t","r",
      "i","c"," ","e","x","c","h","a","n","g","e","s","."," ","T","h","e"," ","s","y",
      "s","t","e","m"," ","l","e","a","r","n","e","d"," ","t","o"," ","c","o","n","v",
      "e","r","t"," ","b","o","u","n","d","a","r","y"," ","v","i","o","l","a","t","i",
      "o","n","s"," ","i","n","t","o"," ","o","b","l","i","g","a","t","i","o","n","s",
      "."," ","A","s","s","i","s","t","a","n","c","e"," ","o","f","f","e","r","e","d",
      " ","w","i","t","h","o","u","t"," ","c","o","n","s","e","n","t"," ","d","o","e",
      "s"," ","n","o","t"," ","c","r","e","a","t","e"," ","e","m","o","t","i","o","n",
      "a","l"," ","d","e","b","t",".">>

\* _generate_pattern_insight, 'performance_anxiety'
InsightPerformanceAnxiety ==
    <<"Y","o","u","r"," ","n","e","r","v","o","u","s"," ","s","y","s","t","e","m"," ",
      "i","s"," ","e","x","e","c","u","t","i","n","g"," ","a","n","t","i","c","i","p",
      "a","t","o","r","y"," ","p","r","e","p","a","r","a","t","i","o","n"," ","p","r",
      "o","t","o","c","o","l",EmDash,"c","l","e","a","r","i","n","g"," ","s","y","s",
      "t","e","m"," ","l","o","a","d"," ","b","e","f","o","r","e"," ","p","e","r","f",
      "o","r","m","a","n","c","e"," ","e","x","p","o","s","u","r","e","."," ","T","h",
      "e"," ","b","o","d","y"," ","t","r","e","a","t","s"," ","u","p","c","o","m","i",
      "n","g"," ","e","v","a","l","u","a","t","i","o","n"," ","a","s"," ","s","u","r",
      "v","i","v","a","l","-","l","e","v","e","l"," ","i","m","p","o","r","t","a","n",
      "c","e","."," ","A","n","x","i","e","t","y"," ","h","e","r","e"," ","f","u","n",
      "c","t","i","o","n","s"," ","a","s"," ","s","i","g","n","a","l"," ","p","r","e",
      "p","a","r","i","n","g"," ","f","o","r"," ","p","e","r","f","o","r","m","a","n",
      "c","e",","," ","n","o","t"," ","m","a","l","f","u","n","c","t","i","o","n",".",
      " ","Y","o","u"," ","a","r","e"," ","m","o","n","i","t","o","r","i","n","g"," ",
      "t","h","e"," ","m","a","c","h","i","n","e","r","y",","," ","n","o","t"," ","b",
      "e","i","n","g"," ","o","v","e","r","w","h","e","l","m","e","d"," ","b","y"," ",
      "i","t",".">>

\* _generate_pattern_insight, 'family_dynamics'
InsightFamilyDynamics ==
    <<"T","h","i","s"," ","i","n","t","e","r","a","c","t","i","o","n"," ","c","a","r",
      "r","i","e","s"," ","e","m","o","t","i","o","n","a","l"," ","l","i","n","e","a",
      "g","e"," ","c","h","a","r","g","e",EmDash,"e","x","p","e","c","t","a","t","i",
      "o","n",","," ","w","o","u","n","d",","," ","a","n","d"," ","h","i","s","t","o",
      "r","i","c"," ","p","a","t","t","e","r","n","s"," ","c","o","n","v","e","r","g",
      "e"," ","i","n"," ","f","a","m","i","l","y"," ","c","o","m","m","u","n","i","c",
      "a","t","i","o","n","s","."," ","T","h","e"," ","b","o","d","y"," ","h","o","l",
      "d","s"," ","i","n","h","e","r","i","t","e","d"," ","s","c","r","i","p","t","s",
      " ","a","b","o","u","t"," ","a","p","p","r","o","v","a","l"," ","a","n","d"," ",
      "d","i","s","a","p","p","o","i","n","t","m","e","n","t","."," ","P","r","e","s",
      "e","n","t"," ","m","o","m","e","n","t"," ","a","u","t","o","n","o","m","y"," ",
      "r","e","q","u","i","r","e","s"," ","s","e","p","a","r","a","t","i","o","n"," ",
      "f","r","o","m"," ","a","n","c","e","s","t","r","a","l"," ","e","m","o","t","i",
      "o","n","a","l"," ","p","r","o","g","r","a","m","m","i","n","g",".">>

\* _generate_pattern_insight, 'financial_anxiety'
InsightFinancialAnxiety ==
    <<"F","i","n","a","n","c","i","a","l"," ","t","r","a","n","s","a","c","t","i","o",
      "n","s"," ","t","r","i","g","g","e","r"," ","p","r","e","c","i","s","i","o","n",
      " ","a","n","x","i","e","t","y",EmDash,"t","h","e"," ","n","e","r","v","o","u",
      "s"," ","s","y","s","t","e","m"," ","t","r","e","a","t","s"," ","m","o","n","e",
      "t","a","r","y"," ","a","c","c","u","r","a","c","y"," ","a","s"," ","s","u","r",
      "v","i","v","a","l","-","l","e","v","e","l"," ","i","m","p","o","r","t","a","n",
      "c","e","."," ","M","e","n","t","a","l"," ","h","o","a","r","d","i","n","g"," ",
      "a","c","c","u","m","u","l","a","t","e","s"," ","m","i","c","r","o","-","a","n",
      "x","i","e","t","i","e","s"," ","w","i","t","h","o","u","t"," ","p","u","r","g",
      "e","."," ","P","r","e","c","i","s","i","o","n"," ","i","s"," ","n","o","t"," ",
      "p","a","n","i","c","."," ","E","v","e","r","y"," ","c","e","n","t"," ","d","o",
      "e","s"," ","n","o","t"," ","c","o","s","t"," ","y","o","u","r"," ","p","e","a",
      "c","e",".">>

somatic_override_words ==
    << <<"c","h","e","s","t">>,
       <<"e","x","p","l","o","s","i","o","n">>,
       <<"b","u","r","n","i","n","g">> >>

\* _generate_generic_insight, first branch
InsightSomaticOverride ==
    <<"T","h","i","s"," ","w","a","s"," ","a"," ","s","o","m","a","t","i","c"," ","o",
      "v","e","r","r","i","d","e"," ","s","c","e","n","a","r","i","o","."," ","Y","o",
      "u","r"," ","n","e","r","v","o","u","s"," ","s","y","s","t","e","m"," ","m","i",
      "s","r","e","a","d"," ","t","h","e"," ","s","i","t","u","a","t","i","o","n"," ",
      "a","s"," ","t","h","r","e","a","t"," ","b","a","s","e","d"," ","o","n"," ","p",
      "r","i","o","r"," ","e","m","o","t","i","o","n","a","l"," ","s","c","r","i","p",
      "t","s","."," ","T","h","e"," ","b","o","d","y","'","s"," ","r","e","s","p","o",
      "n","s","e"," ","p","r","e","c","e","d","e","d"," ","c","o","g","n","i","t","i",
      "v","e"," ","e","v","a","l","u","a","t","i","o","n","."," ","R","e","c","o","g",
      "n","i","t","i","o","n"," ","i","n","t","e","r","r","u","p","t","s"," ","t","h",
      "e"," ","a","u","t","o","m","a","t","i","c"," ","s","e","q","u","e","n","c","e",
      ".">>

anxiety_words ==
    << <<"a","n","x","i","e","t","y">>,
       <<"n","e","r","v","o","u","s">>,
       <<"s","t","r","e","s","s">> >>

\* _generate_generic_insight, second branch
InsightAnxiety ==
    <<"A","n","x","i","e","t","y"," ","f","u","n","c","t","i","o","n","s"," ","h","e",
      "r","e"," ","a","s"," ","a","n","t","i","c","i","p","a","t","o","r","y"," ","p",
      "r","o","t","e","c","t","i","o","n",EmDash,"a","t","t","e","m","p","t","i","n",
      "g"," ","t","o"," ","c","o","n","t","r","o","l"," ","u","n","c","e","r","t","a",
      "i","n"," ","o","u","t","c","o","m","e","s"," ","t","h","r","o","u","g","h"," ",
      "m","e","n","t","a","l"," ","p","r","e","p","a","r","a","t","i","o","n","."," ",
      "T","h","e"," ","n","e","r","v","o","u","s"," ","s","y","s","t","e","m"," ","c",
      "o","n","f","l","a","t","e","s"," ","v","i","g","i","l","a","n","c","e"," ","w",
      "i","t","h"," ","s","a","f","e","t","y","."," ","P","r","e","s","e","n","t"," ",
      "m","o","m","e","n","t"," ","a","w","a","r","e","n","e","s","s"," ","d","i","s",
      "s","o","l","v","e","s"," ","f","u","t","u","r","e","-","b","a","s","e","d"," ",
      "t","h","r","e","a","t"," ","a","s","s","e","s","s","m","e","n","t",".">>

\* _generate_generic_insight, last branch
InsightDefault ==
    <<"E","m","o","t","i","o","n","a","l"," ","a","c","t","i","v","a","t","i","o","n",
      " ","o","c","c","u","r","r","e","d"," ","t","h","r","o","u","g","h"," ","l","e",
      "a","r","n","e","d"," ","r","e","s","p","o","n","s","e"," ","p","a","t","t","e",
      "r","n","s","."," ","T","h","e"," ","r","e","a","c","t","i","o","n"," ","s","t",
      "e","m","s"," ","f","r","o","m"," ","h","i","s","t","o","r","i","c","a","l"," ",
      "a","s","s","o","c","i","a","t","i","o","n","s"," ","r","a","t","h","e","r"," ",
      "t","h","a","n"," ","p","r","e","s","e","n","t"," ","c","i","r","c","u","m","s",
      "t","a","n","c","e","s","."," ","C","o","n","s","c","i","o","u","s"," ","r","e",
      "c","o","g","n","i","t","i","o","n"," ","c","r","e","a","t","e","s"," ","s","p",
      "a","c","e"," ","b","e","t","w","e","e","n"," ","t","r","i","g","g","e","r"," ",
      "a","n","d"," ","r","e","s","p","o","n","s","e","."," ","P","a","t","t","e","r",
      "n"," ","a","w","a","r","e","n","e","s","s"," ","p","r","e","v","e","n","t","s",
      " ","a","u","t","o","m","a","t","i","c"," ","b","e","h","a","v","i","o","r","a",
      "l"," ","d","i","s","c","h","a","r","g","e",".">>
\* _extract_situation: activity_patterns
activity_patterns ==
    <<
      \* r'while (?:talking to|speaking with|calling) (?:my )?(?:father|mother|sister|boss|colleague|friend)', 'communication'
      [pattern |-> <<Lit(<<"w","h","i","l","e"," ">>),
        Words(<<<<"t","a","l","k","i","n","g"," ","t","o">>,
        <<"s","p","e","a","k","i","n","g"," ","w","i","t","h">>,
        <<"c","a","l","l","i","n","g">>>>), Lit(<<" ">>), Repeat(0, 1, TRUE,
        <<Group(<<Lit(<<"m","y"," ">>)>>)>>), Words(<<<<"f","a","t","h","e","r">>,
        <<"m","o","t","h","e","r">>, <<"s","i","s","t","e","r">>, <<"b","o","s","s">>,
        <<"c","o","l","l","e","a","g","u","e">>, <<"f","r","i","e","n","d">>>>)>>,
        category |-> "communication"],
      \* r'while (?:cooking|working|driving|eating|walking)', 'daily_activity'
      [pattern |-> <<Lit(<<"w","h","i","l","e"," ">>),
        Words(<<<<"c","o","o","k","i","n","g">>, <<"w","o","r","k","i","n","g">>,
        <<"d","r","i","v","i","n","g">>, <<"e","a","t","i","n","g">>,
        <<"w","a","l","k","i","n","g">>>>)>>, category |-> "daily_activity"],
      \* r'(?:paying|sending|receiving) (?:money|payment|rent|deposit)', 'financial_transaction'
      [pattern |-> <<Words(<<<<"p","a","y","i","n","g">>, <<"s","e","n","d","i","n","g">>,
        <<"r","e","c","e","i","v","i","n","g">>>>), Lit(<<" ">>),
        Words(<<<<"m","o","n","e","y">>, <<"p","a","y","m","e","n","t">>,
        <<"r","e","n","t">>, <<"d","e","p","o","s","i","t">>>>)>>,
        category |-> "financial_transaction"],
      \* r'(?:interview|meeting|appointment|call) (?:with|at|for)', 'professional_interaction'
      [pattern |-> <<Words(<<<<"i","n","t","e","r","v","i","e","w">>,
        <<"m","e","e","t","i","n","g">>, <<"a","p","p","o","i","n","t","m","e","n","t">>,
        <<"c","a","l","l">>>>), Lit(<<" ">>), Words(<<<<"w","i","t","h">>, <<"a","t">>,
        <<"f","o","r">>>>)>>, category |-> "professional_interaction"],
      \* r'at (?:work|home|office|gym|restaurant|meeting)', 'location_based'
      [pattern |-> <<Lit(<<"a","t"," ">>), Words(<<<<"w","o","r","k">>,
        <<"h","o","m","e">>, <<"o","f","f","i","c","e">>, <<"g","y","m">>,
        <<"r","e","s","t","a","u","r","a","n","t">>, <<"m","e","e","t","i","n","g">>>>)>>,
        category |-> "location_based"],
      \* r'in (?:the|my) (?:kitchen|bedroom|car|office|meeting|gym)', 'location_based'
      [pattern |-> <<Lit(<<"i","n"," ">>), Words(<<<<"t","h","e">>, <<"m","y">>>>),
        Lit(<<" ">>), Words(<<<<"k","i","t","c","h","e","n">>,
        <<"b","e","d","r","o","o","m">>, <<"c","a","r">>, <<"o","f","f","i","c","e">>,
        <<"m","e","e","t","i","n","g">>, <<"g","y","m">>>>)>>,
        category |-> "location_based"]
    >>

\* _extract_situation: emotional_contexts
emotional_contexts ==
    <<
      \* r'had (?:a )?(?:fight|argument|conflict) with'
      <<Lit(<<"h","a","d"," ">>), Repeat(0, 1, TRUE, <<Group(<<Lit(<<"a"," ">>)>>)>>),
        Words(<<<<"f","i","g","h","t">>, <<"a","r","g","u","m","e","n","t">>,
        <<"c","o","n","f","l","i","c","t">>>>), Lit(<<" ","w","i","t","h">>)>>,
      \* r'received (?:a )?(?:message|call|email) from'
      <<Lit(<<"r","e","c","e","i","v","e","d"," ">>), Repeat(0, 1, TRUE,
        <<Group(<<Lit(<<"a"," ">>)>>)>>), Words(<<<<"m","e","s","s","a","g","e">>,
        <<"c","a","l","l">>, <<"e","m","a","i","l">>>>), Lit(<<" ","f","r","o","m">>)>>,
      \* r'decided (?:to|not to)'
      <<Lit(<<"d","e","c","i","d","e","d"," ">>), Words(<<<<"t","o">>,
        <<"n","o","t"," ","t","o">>>>)>>,
      \* r'trying to (?:sell|buy|get|find)'
      <<Lit(<<"t","r","y","i","n","g"," ","t","o"," ">>), Words(<<<<"s","e","l","l">>,
        <<"b","u","y">>, <<"g","e","t">>, <<"f","i","n","d">>>>)>>,
      \* r'need(?:ed)? to (?:go|do|get|make)'
      <<Lit(<<"n","e","e","d">>), Repeat(0, 1, TRUE, <<Group(<<Lit(<<"e","d">>)>>)>>),
        Lit(<<" ","t","o"," ">>), Words(<<<<"g","o">>, <<"d","o">>, <<"g","e","t">>,
        <<"m","a","k","e">>>>)>>
    >>

\* _extract_trigger: trigger_patterns
trigger_patterns ==
    <<
      \* r'internal voice.*?(?:saying|telling|about).*?(?:waste|stupid|should)', 'internal_voice'
      [pattern |-> <<Lit(<<"i","n","t","e","r","n","a","l"," ","v","o","i","c","e">>),
        Repeat(0, Unbounded, FALSE, <<AnyChar>>), Words(<<<<"s","a","y","i","n","g">>,
        <<"t","e","l","l","i","n","g">>, <<"a","b","o","u","t">>>>), Repeat(0, Unbounded,
        FALSE, <<AnyChar>>), Words(<<<<"w","a","s","t","e">>, <<"s","t","u","p","i","d">>,
        <<"s","h","o","u","l","d">>>>)>>, trigger_type |-> "internal_voice"],
      \* r'keep thinking (?:about|that).*?(?:stupid|waste|should|wrong)', 'internal_voice'
      [pattern |-> <<Lit(<<"k","e","e","p"," ","t","h","i","n","k","i","n","g"," ">>),
        Words(<<<<"a","b","o","u","t">>, <<"t","h","a","t">>>>), Repeat(0, Unbounded,
        FALSE, <<AnyChar>>), Words(<<<<"s","t","u","p","i","d">>, <<"w","a","s","t","e">>,
        <<"s","h","o","u","l","d">>, <<"w","r","o","n","g">>>>)>>,
        trigger_type |-> "internal_voice"],
      \* r'voice.*?(?:saying|telling).*?["\']([^"\']*)["\']', 'internal_voice'
      [pattern |-> <<Lit(<<"v","o","i","c","e">>), Repeat(0, Unbounded, FALSE,
        <<AnyChar>>), Words(<<<<"s","a","y","i","n","g">>,
        <<"t","e","l","l","i","n","g">>>>), Repeat(0, Unbounded, FALSE, <<AnyChar>>),
        OneOf({"\"","'"}), Group(<<Repeat(0, Unbounded, TRUE, <<NoneOf({"\"","'"})>>)>>),
        OneOf({"\"","'"})>>, trigger_type |-> "internal_voice"],
      \* r'keep checking.*?(?:phone|message|email|status)', 'checking_compulsion'
      [pattern |-> <<Lit(<<"k","e","e","p"," ","c","h","e","c","k","i","n","g">>),
        Repeat(0, Unbounded, FALSE, <<AnyChar>>), Words(<<<<"p","h","o","n","e">>,
        <<"m","e","s","s","a","g","e">>, <<"e","m","a","i","l">>,
        <<"s","t","a","t","u","s">>>>)>>, trigger_type |-> "checking_compulsion"],
      \* r'looking at.*?(?:phone|message|email).*?(?:times|hour)', 'checking_compulsion'
      [pattern |-> <<Lit(<<"l","o","o","k","i","n","g"," ","a","t">>), Repeat(0, Unbounded,
        FALSE, <<AnyChar>>), Words(<<<<"p","h","o","n","e">>,
        <<"m","e","s","s","a","g","e">>, <<"e","m","a","i","l">>>>), Repeat(0, Unbounded,
        FALSE, <<AnyChar>>), Words(<<<<"t","i","m","e","s">>, <<"h","o","u","r">>>>)>>,
        trigger_type |-> "checking_compulsion"],
      \* r'sent.*?(?:message|email|text).*?(?:checking|looking)', 'communication_trigger'
      [pattern |-> <<Lit(<<"s","e","n","t">>), Repeat(0, Unbounded, FALSE, <<AnyChar>>),
        Words(<<<<"m","e","s","s","a","g","e">>, <<"e","m","a","i","l">>,
        <<"t","e","x","t">>>>), Repeat(0, Unbounded, FALSE, <<AnyChar>>),
        Words(<<<<"c","h","e","c","k","i","n","g">>, <<"l","o","o","k","i","n","g">>>>)>>,
        trigger_type |-> "communication_trigger"],
      \* r'(?:anxiety|stress|worry|fear) about (?:the )?(?:money|cost|deadline|presentation)', 'anxiety_trigger'
      [pattern |-> <<Words(<<<<"a","n","x","i","e","t","y">>, <<"s","t","r","e","s","s">>,
        <<"w","o","r","r","y">>, <<"f","e","a","r">>>>),
        Lit(<<" ","a","b","o","u","t"," ">>), Repeat(0, 1, TRUE,
        <<Group(<<Lit(<<"t","h","e"," ">>)>>)>>), Words(<<<<"m","o","n","e","y">>,
        <<"c","o","s","t">>, <<"d","e","a","d","l","i","n","e">>,
        <<"p","r","e","s","e","n","t","a","t","i","o","n">>>>)>>,
        trigger_type |-> "anxiety_trigger"],
      \* r'feeling (?:terrible|guilty|bad) (?:about|and)', 'emotional_trigger'
      [pattern |-> <<Lit(<<"f","e","e","l","i","n","g"," ">>),
        Words(<<<<"t","e","r","r","i","b","l","e">>, <<"g","u","i","l","t","y">>,
        <<"b","a","d">>>>), Lit(<<" ">>), Words(<<<<"a","b","o","u","t">>,
        <<"a","n","d">>>>)>>, trigger_type |-> "emotional_trigger"],
      \* r'(?:guilt|shame|anger) (?:sitting|mixed with)', 'emotional_trigger'
      [pattern |-> <<Words(<<<<"g","u","i","l","t">>, <<"s","h","a","m","e">>,
        <<"a","n","g","e","r">>>>), Lit(<<" ">>), Words(<<<<"s","i","t","t","i","n","g">>,
        <<"m","i","x","e","d"," ","w","i","t","h">>>>)>>,
        trigger_type |-> "emotional_trigger"],
      \* r'(?:presentation|interview|meeting) (?:tomorrow|soon|coming)', 'performance_anxiety'
      [pattern |-> <<Words(<<<<"p","r","e","s","e","n","t","a","t","i","o","n">>,
        <<"i","n","t","e","r","v","i","e","w">>, <<"m","e","e","t","i","n","g">>>>),
        Lit(<<" ">>), Words(<<<<"t","o","m","o","r","r","o","w">>, <<"s","o","o","n">>,
        <<"c","o","m","i","n","g">>>>)>>, trigger_type |-> "performance_anxiety"],
      \* r'woke up.*?(?:mind racing|thinking about|worrying)', 'anticipatory_worry'
      [pattern |-> <<Lit(<<"w","o","k","e"," ","u","p">>), Repeat(0, Unbounded, FALSE,
        <<AnyChar>>), Words(<<<<"m","i","n","d"," ","r","a","c","i","n","g">>,
        <<"t","h","i","n","k","i","n","g"," ","a","b","o","u","t">>,
        <<"w","o","r","r","y","i","n","g">>>>)>>, trigger_type |-> "anticipatory_worry"],
      \* r'keep (?:reviewing|going over|thinking about).*?(?:notes|presentation|what)', 'preparation_anxiety'
      [pattern |-> <<Lit(<<"k","e","e","p"," ">>),
        Words(<<<<"r","e","v","i","e","w","i","n","g">>,
        <<"g","o","i","n","g"," ","o","v","e","r">>,
        <<"t","h","i","n","k","i","n","g"," ","a","b","o","u","t">>>>), Repeat(0,
        Unbounded, FALSE, <<AnyChar>>), Words(<<<<"n","o","t","e","s">>,
        <<"p","r","e","s","e","n","t","a","t","i","o","n">>, <<"w","h","a","t">>>>)>>,
        trigger_type |-> "preparation_anxiety"]
    >>

\* _extract_trigger: fallback_patterns
fallback_patterns ==
    <<
      \* r'every time.*?(?:see|look|think).*?(?:feel|get)'
      <<Lit(<<"e","v","e","r","y"," ","t","i","m","e">>), Repeat(0, Unbounded, FALSE,
        <<AnyChar>>), Words(<<<<"s","e","e">>, <<"l","o","o","k">>,
        <<"t","h","i","n","k">>>>), Repeat(0, Unbounded, FALSE, <<AnyChar>>),
        Words(<<<<"f","e","e","l">>, <<"g","e","t">>>>)>>,
      \* r'(?:can\'t stop|keep).*?(?:myself|thinking|looking)'
      <<Words(<<<<"c","a","n","'","t"," ","s","t","o","p">>, <<"k","e","e","p">>>>),
        Repeat(0, Unbounded, FALSE, <<AnyChar>>), Words(<<<<"m","y","s","e","l","f">>,
        <<"t","h","i","n","k","i","n","g">>, <<"l","o","o","k","i","n","g">>>>)>>,
      \* r'(?:woke up|started).*?(?:with|feeling).*?(?:racing|anxiety|stress)'
      <<Words(<<<<"w","o","k","e"," ","u","p">>, <<"s","t","a","r","t","e","d">>>>),
        Repeat(0, Unbounded, FALSE, <<AnyChar>>), Words(<<<<"w","i","t","h">>,
        <<"f","e","e","l","i","n","g">>>>), Repeat(0, Unbounded, FALSE, <<AnyChar>>),
        Words(<<<<"r","a","c","i","n","g">>, <<"a","n","x","i","e","t","y">>,
        <<"s","t","r","e","s","s">>>>)>>,
      \* r'(?:feel|feeling).*?(?:terrible|guilty|anxious|stressed)'
      <<Words(<<<<"f","e","e","l">>, <<"f","e","e","l","i","n","g">>>>), Repeat(0,
        Unbounded, FALSE, <<AnyChar>>), Words(<<<<"t","e","r","r","i","b","l","e">>,
        <<"g","u","i","l","t","y">>, <<"a","n","x","i","o","u","s">>,
        <<"s","t","r","e","s","s","e","d">>>>)>>
    >>

\* _extract_somatic_cognitive_response: somatic_patterns, in the order .items() and the inner loop visit them
somatic_patterns ==
    <<
      \* 'chest': r'chest.*?(?:tight|heavy|burning|explosion|tension|pressure)'
      [pattern |-> <<Lit(<<"c","h","e","s","t">>), Repeat(0, Unbounded, FALSE,
        <<AnyChar>>), Words(<<<<"t","i","g","h","t">>, <<"h","e","a","v","y">>,
        <<"b","u","r","n","i","n","g">>, <<"e","x","p","l","o","s","i","o","n">>,
        <<"t","e","n","s","i","o","n">>, <<"p","r","e","s","s","u","r","e">>>>)>>,
        body_system |-> "chest"],
      \* 'chest': r'(?:micro|atomic) (?:ball|bomb) explosion.*?(?:chest|breast)'
      [pattern |-> <<Words(<<<<"m","i","c","r","o">>, <<"a","t","o","m","i","c">>>>),
        Lit(<<" ">>), Words(<<<<"b","a","l","l">>, <<"b","o","m","b">>>>),
        Lit(<<" ","e","x","p","l","o","s","i","o","n">>), Repeat(0, Unbounded, FALSE,
        <<AnyChar>>), Words(<<<<"c","h","e","s","t">>, <<"b","r","e","a","s","t">>>>)>>,
        body_system |-> "chest"],
      \* 'chest': r'burning.*?(?:chest|breast)'
      [pattern |-> <<Lit(<<"b","u","r","n","i","n","g">>), Repeat(0, Unbounded, FALSE,
        <<AnyChar>>), Words(<<<<"c","h","e","s","t">>, <<"b","r","e","a","s","t">>>>)>>,
        body_system |-> "chest"],
      \* 'chest': r'(?:light|heavy) (?:burning|pressure).*?chest'
      [pattern |-> <<Words(<<<<"l","i","g","h","t">>, <<"h","e","a","v","y">>>>),
        Lit(<<" ">>), Words(<<<<"b","u","r","n","i","n","g">>,
        <<"p","r","e","s","s","u","r","e">>>>), Repeat(0, Unbounded, FALSE, <<AnyChar>>),
        Lit(<<"c","h","e","s","t">>)>>, body_system |-> "chest"],
      \* 'breathing': r'breathing.*?(?:shallow|heavy|difficult|short)'
      [pattern |-> <<Lit(<<"b","r","e","a","t","h","i","n","g">>), Repeat(0, Unbounded,
        FALSE, <<AnyChar>>), Words(<<<<"s","h","a","l","l","o","w">>,
        <<"h","e","a","v","y">>, <<"d","i","f","f","i","c","u","l","t">>,
        <<"s","h","o","r","t">>>>)>>, body_system |-> "breathing"],
      \* 'breathing': r'can\'?t breathe'
      [pattern |-> <<Lit(<<"c","a","n">>), Repeat(0, 1, TRUE, <<Lit(<<"'">>)>>),
        Lit(<<"t"," ","b","r","e","a","t","h","e">>)>>, body_system |-> "breathing"],
      \* 'breathing': r'breath.*?(?:short|shallow|racing)'
      [pattern |-> <<Lit(<<"b","r","e","a","t","h">>), Repeat(0, Unbounded, FALSE,
        <<AnyChar>>), Words(<<<<"s","h","o","r","t">>, <<"s","h","a","l","l","o","w">>,
        <<"r","a","c","i","n","g">>>>)>>, body_system |-> "breathing"],
      \* 'breathing': r'holding.*?breath'
      [pattern |-> <<Lit(<<"h","o","l","d","i","n","g">>), Repeat(0, Unbounded, FALSE,
        <<AnyChar>>), Lit(<<"b","r","e","a","t","h">>)>>, body_system |-> "breathing"],
      \* 'heart': r'heart.*?(?:racing|pounding|beating|fast)'
      [pattern |-> <<Lit(<<"h","e","a","r","t">>), Repeat(0, Unbounded, FALSE,
        <<AnyChar>>), Words(<<<<"r","a","c","i","n","g">>,
        <<"p","o","u","n","d","i","n","g">>, <<"b","e","a","t","i","n","g">>,
        <<"f","a","s","t">>>>)>>, body_system |-> "heart"],
      \* 'heart': r'heart rate.*?(?:up|elevated|increased)'
      [pattern |-> <<Lit(<<"h","e","a","r","t"," ","r","a","t","e">>), Repeat(0, Unbounded,
        FALSE, <<AnyChar>>), Words(<<<<"u","p">>, <<"e","l","e","v","a","t","e","d">>,
        <<"i","n","c","r","e","a","s","e","d">>>>)>>, body_system |-> "heart"],
      \* 'nervous_system': r'(?:sympathetic|somatic) (?:reflex|spike|response|activation)'
      [pattern |-> <<Words(<<<<"s","y","m","p","a","t","h","e","t","i","c">>,
        <<"s","o","m","a","t","i","c">>>>), Lit(<<" ">>),
        Words(<<<<"r","e","f","l","e","x">>, <<"s","p","i","k","e">>,
        <<"r","e","s","p","o","n","s","e">>,
        <<"a","c","t","i","v","a","t","i","o","n">>>>)>>,
        body_system |-> "nervous_system"],
      \* 'nervous_system': r'nervous.*?(?:reaction|response|energy)'
      [pattern |-> <<Lit(<<"n","e","r","v","o","u","s">>), Repeat(0, Unbounded, FALSE,
        <<AnyChar>>), Words(<<<<"r","e","a","c","t","i","o","n">>,
        <<"r","e","s","p","o","n","s","e">>, <<"e","n","e","r","g","y">>>>)>>,
        body_system |-> "nervous_system"],
      \* 'nervous_system': r'(?:anxiety|stress) (?:pulse|spike|wave)'
      [pattern |-> <<Words(<<<<"a","n","x","i","e","t","y">>,
        <<"s","t","r","e","s","s">>>>), Lit(<<" ">>), Words(<<<<"p","u","l","s","e">>,
        <<"s","p","i","k","e">>, <<"w","a","v","e">>>>)>>,
        body_system |-> "nervous_system"],
      \* 'nervous_system': r'startle.*?response'
      [pattern |-> <<Lit(<<"s","t","a","r","t","l","e">>), Repeat(0, Unbounded, FALSE,
        <<AnyChar>>), Lit(<<"r","e","s","p","o","n","s","e">>)>>,
        body_system |-> "nervous_system"],
      \* 'muscular': r'(?:hands|fingers).*?(?:shaking|trembling|tense)'
      [pattern |-> <<Words(<<<<"h","a","n","d","s">>, <<"f","i","n","g","e","r","s">>>>),
        Repeat(0, Unbounded, FALSE, <<AnyChar>>), Words(<<<<"s","h","a","k","i","n","g">>,
        <<"t","r","e","m","b","l","i","n","g">>, <<"t","e","n","s","e">>>>)>>,
        body_system |-> "muscular"],
      \* 'muscular': r'(?:jaw|shoulders|muscles).*?(?:clenched|tight|tense)'
      [pattern |-> <<Words(<<<<"j","a","w">>, <<"s","h","o","u","l","d","e","r","s">>,
        <<"m","u","s","c","l","e","s">>>>), Repeat(0, Unbounded, FALSE, <<AnyChar>>),
        Words(<<<<"c","l","e","n","c","h","e","d">>, <<"t","i","g","h","t">>,
        <<"t","e","n","s","e">>>>)>>, body_system |-> "muscular"],
      \* 'muscular': r'shoulders.*?(?:raised|hunched|tense)'
      [pattern |-> <<Lit(<<"s","h","o","u","l","d","e","r","s">>), Repeat(0, Unbounded,
        FALSE, <<AnyChar>>), Words(<<<<"r","a","i","s","e","d">>,
        <<"h","u","n","c","h","e","d">>, <<"t","e","n","s","e">>>>)>>,
        body_system |-> "muscular"],
      \* 'digestive': r'stomach.*?(?:knots|tight|churning|dropping)'
      [pattern |-> <<Lit(<<"s","t","o","m","a","c","h">>), Repeat(0, Unbounded, FALSE,
        <<AnyChar>>), Words(<<<<"k","n","o","t","s">>, <<"t","i","g","h","t">>,
        <<"c","h","u","r","n","i","n","g">>, <<"d","r","o","p","p","i","n","g">>>>)>>,
        body_system |-> "digestive"],
      \* 'digestive': r'nauseous|nausea'
      [pattern |-> <<Words(<<<<"n","a","u","s","e","o","u","s">>,
        <<"n","a","u","s","e","a">>>>)>>, body_system |-> "digestive"],
      \* 'digestive': r'(?:esophageal )?reflux'
      [pattern |-> <<Repeat(0, 1, TRUE,
        <<Group(<<Lit(<<"e","s","o","p","h","a","g","e","a","l"," ">>)>>)>>),
        Lit(<<"r","e","f","l","u","x">>)>>, body_system |-> "digestive"],
      \* 'digestive': r'(?:bowel|defecated).*?(?:activity|movement|times)'
      [pattern |-> <<Words(<<<<"b","o","w","e","l">>,
        <<"d","e","f","e","c","a","t","e","d">>>>), Repeat(0, Unbounded, FALSE,
        <<AnyChar>>), Words(<<<<"a","c","t","i","v","i","t","y">>,
        <<"m","o","v","e","m","e","n","t">>, <<"t","i","m","e","s">>>>)>>,
        body_system |-> "digestive"],
      \* 'cognitive': r'thoughts?.*?(?:racing|spinning|looping)'
      [pattern |-> <<Lit(<<"t","h","o","u","g","h","t">>), Repeat(0, 1, TRUE,
        <<Lit(<<"s">>)>>), Repeat(0, Unbounded, FALSE, <<AnyChar>>),
        Words(<<<<"r","a","c","i","n","g">>, <<"s","p","i","n","n","i","n","g">>,
        <<"l","o","o","p","i","n","g">>>>)>>, body_system |-> "cognitive"],
      \* 'cognitive': r'mental.*?(?:loop|hoarding|checking)'
      [pattern |-> <<Lit(<<"m","e","n","t","a","l">>), Repeat(0, Unbounded, FALSE,
        <<AnyChar>>), Words(<<<<"l","o","o","p">>, <<"h","o","a","r","d","i","n","g">>,
        <<"c","h","e","c","k","i","n","g">>>>)>>, body_system |-> "cognitive"],
      \* 'cognitive': r'obsessive.*?(?:checking|thoughts)'
      [pattern |-> <<Lit(<<"o","b","s","e","s","s","i","v","e">>), Repeat(0, Unbounded,
        FALSE, <<AnyChar>>), Words(<<<<"c","h","e","c","k","i","n","g">>,
        <<"t","h","o","u","g","h","t","s">>>>)>>, body_system |-> "cognitive"],
      \* 'cognitive': r'cognitive.*?(?:strain|load)'
      [pattern |-> <<Lit(<<"c","o","g","n","i","t","i","v","e">>), Repeat(0, Unbounded,
        FALSE, <<AnyChar>>), Words(<<<<"s","t","r","a","i","n">>, <<"l","o","a","d">>>>)>>,
        body_system |-> "cognitive"]
    >>

\* _extract_somatic_cognitive_response: intensity_patterns
intensity_patterns ==
    <<
      \* r'(?:mild|light|slight) (?:anxiety|discomfort|tension|burning)'
      <<Words(<<<<"m","i","l","d">>, <<"l","i","g","h","t">>,
        <<"s","l","i","g","h","t">>>>), Lit(<<" ">>),
        Words(<<<<"a","n","x","i","e","t","y">>,
        <<"d","i","s","c","o","m","f","o","r","t">>, <<"t","e","n","s","i","o","n">>,
        <<"b","u","r","n","i","n","g">>>>)>>,
      \* r'(?:intense|strong|heavy|overwhelming) (?:feeling|sensation|response)'
      <<Words(<<<<"i","n","t","e","n","s","e">>, <<"s","t","r","o","n","g">>,
        <<"h","e","a","v","y">>, <<"o","v","e","r","w","h","e","l","m","i","n","g">>>>),
        Lit(<<" ">>), Words(<<<<"f","e","e","l","i","n","g">>,
        <<"s","e","n","s","a","t","i","o","n">>, <<"r","e","s","p","o","n","s","e">>>>)>>,
      \* r'(?:immediate|sudden|instant) (?:reaction|response|feeling)'
      <<Words(<<<<"i","m","m","e","d","i","a","t","e">>, <<"s","u","d","d","e","n">>,
        <<"i","n","s","t","a","n","t">>>>), Lit(<<" ">>),
        Words(<<<<"r","e","a","c","t","i","o","n">>, <<"r","e","s","p","o","n","s","e">>,
        <<"f","e","e","l","i","n","g">>>>)>>
    >>

\* r'\s+'
whitespace_run == <<Repeat(1, Unbounded, TRUE, <<Space>>)>>

\* r'\b(?:like|you know|kind of|sort of)\b'
filler_words ==
    <<WordBoundary, Words(<<<<"l","i","k","e">>, <<"y","o","u"," ","k","n","o","w">>,
      <<"k","i","n","d"," ","o","f">>, <<"s","o","r","t"," ","o","f">>>>), WordBoundary>>
----------------------------------------------------------------------------
(* LogCreator (rudeai/log_creator.py) *)

\* the patterns of a list of records
Patterns(list) == [k \in 1..Len(list) |-> list[k].pattern]

\* the patterns of a list that have a match in s
Hits(patterns, s) == {k \in 1..Len(patterns) : re_search(patterns[k], s) # None}

\* `for pattern in patterns: match = re.search(pattern, s); if match: ...`
\* the match of the first pattern that has one, or None
FirstSearch(patterns, s) ==
    IF Hits(patterns, s) = {} THEN None
    ELSE re_search(patterns[MinOf(Hits(patterns, s))], s)

\* any(word in s for word in words)
AnyIn(words, s) == \E k \in 1..Len(words) : Contains(words[k], s)

\* text[max(0, match.start() - before) : min(match.end() + after, len(text))].strip()
Window(text, match, before, after) ==
    Strip(Slice(text, Max(0, (match.start - 1) - before),
                Min((match.end - 1) + after, Len(text))))

\* cleaned[0].upper() + cleaned[1:] if cleaned else cleaned
UpperFirst(cleaned) ==
    IF cleaned # <<>> THEN <<UpperChar(cleaned[1])>> \o Tail(cleaned) ELSE cleaned

_clean_and_capitalize(text) ==
    UpperFirst(re_sub(whitespace_run, <<" ">>, Strip(text)))

_clean_somatic_cognitive_response(text) ==
    Strip(re_sub(whitespace_run, <<" ">>,
                 re_sub(filler_words, <<>>,
                        re_sub(whitespace_run, <<" ">>, Strip(text)))))

\* the emotions one of whose variants is in text_lower
EmotionHits(text_lower) ==
    {k \in 1..Len(emotional_words) : AnyIn(emotional_words[k].variants, text_lower)}

_extract_emotional_context(text) ==
    IF EmotionHits(Lower(text)) = {} THEN GenericTrigger
    ELSE StrEmotionalActivationInvolving
         \o emotional_words[MinOf(EmotionHits(Lower(text)))].emotion
         \o StrResponsePattern

\* [s.strip() for s in parts if len(s.strip()) > 15]
LongSentences(parts) ==
    SelectSeq([k \in 1..Len(parts) |-> Strip(parts[k])], LAMBDA s : Len(s) > 15)

\* the three ways of _extract_situation, given what its searches found
SituationOf(text, text_lower, activity, emotional, sentences) ==
    IF activity # None
    THEN _clean_and_capitalize(MatchGroup(text_lower, activity[1]))
    ELSE IF emotional # None
    THEN _clean_and_capitalize(Window(text, emotional[1], 20, 50))
    ELSE IF sentences # <<>>
    THEN _clean_and_capitalize(sentences[1])
    ELSE GenericSituation

_extract_situation(text) ==
    SituationOf(text, Lower(text),
                FirstSearch(Patterns(activity_patterns), Lower(text)),
                FirstSearch(emotional_contexts, Lower(text)),
                LongSentences(Split(text, ".")))

\* the first of the sentences that holds one of the words, stripped, or None
FirstSentenceWith(sentences, words) ==
    IF \A k \in 1..Len(sentences) : ~AnyIn(words, Strip(Lower(sentences[k])))
    THEN None
    ELSE Some(Strip(sentences[MinOf({k \in 1..Len(sentences) :
                                        AnyIn(words, Strip(Lower(sentences[k])))})]))

\* the sentence of the text that holds one of the first three words of the
\* match, stripped, or None
SentenceOf(text, words) == FirstSentenceWith(Split(text, "."), words)

\* the break points found past the 20th character of the context
BreakHits(context) ==
    {k \in 1..Len(break_points) :
        Contains(break_points[k], SubSeq(context, 21, Len(context)))}

\* the context, cut after the first break point found past its 20th
\* character
CutAtBreak(context) ==
    IF BreakHits(context) = {} THEN context
    ELSE Strip(SubSeq(context, 1,
                      Find(break_points[MinOf(BreakHits(context))], context, 21)))

BoundedContext(text, match) == CutAtBreak(Window(text, match, 10, 50))

\* the sentence if there is one of at least 10 characters, else the window
SentenceOrWindow(text, match, sentence) ==
    IF sentence = None \/ Len(sentence[1]) < 10
    THEN BoundedContext(text, match)
    ELSE sentence[1]

\* trigger_context of one match of one trigger pattern
TriggerContext(text, text_lower, match) ==
    SentenceOrWindow(text, match,
                     SentenceOf(text, Take(SplitWhitespace(MatchGroup(text_lower, match)), 3)))

\* found_triggers.append((trigger_context, trigger_type, len(trigger_context)))
\* if len(trigger_context) > 10
Appended(trigger_context, trigger_type) ==
    IF Len(trigger_context) > 10
    THEN << <<trigger_context, trigger_type, Len(trigger_context)>> >>
    ELSE <<>>

\* what the inner loop appends to found_triggers for the matches of one
\* pattern
MatchTriggers(matches, trigger_type, text, text_lower) ==
    Flatten([k \in 1..Len(matches) |->
                Appended(TriggerContext(text, text_lower, matches[k]), trigger_type)])

\* found_triggers after the loop over trigger_patterns
FoundTriggers(text, text_lower) ==
    Flatten([k \in 1..Len(trigger_patterns) |->
                MatchTriggers(re_finditer(trigger_patterns[k].pattern, text_lower),
                              trigger_patterns[k].trigger_type, text, text_lower)])

\* max(found_triggers, key=lambda x: x[2]): the first of the longest
BestTrigger(found_triggers) ==
    found_triggers[CHOOSE i \in 1..Len(found_triggers) :
                       /\ \A j \in 1..Len(found_triggers) :
                              found_triggers[j][3] <= found_triggers[i][3]
                       /\ \A j \in 1..(i - 1) :
                              found_triggers[j][3] < found_triggers[i][3]]

\* the three ways of _extract_trigger, given what its loops found
TriggerOf(text, found_triggers, fallback) ==
    IF found_triggers # <<>>
    THEN _clean_and_capitalize(BestTrigger(found_triggers)[1])
    ELSE IF fallback # None
    THEN _clean_and_capitalize(Window(text, fallback[1], 5, 25))
    ELSE _extract_emotional_context(text)

_extract_trigger(text) ==
    TriggerOf(text, FoundTriggers(text, Lower(text)),
              FirstSearch(fallback_patterns, Lower(text)))

\* each match cleaned
Cleaned(matches) ==
    [i \in 1..Len(matches) |-> _clean_somatic_cognitive_response(matches[i])]

\* found_responses after the loop over somatic_patterns: the cleaned
\* matches that are not empty
SomaticMatches(text_lower) ==
    Flatten([k \in 1..Len(somatic_patterns) |->
                SelectSeq(Cleaned(re_findall(somatic_patterns[k].pattern, text_lower)),
                          LAMBDA c : c # <<>>)])

\* what the loop over intensity_patterns adds to found_responses
IntensityMatches(text_lower) ==
    Flatten([k \in 1..Len(intensity_patterns) |->
                Cleaned(re_findall(intensity_patterns[k], text_lower))])

\* the test a response passes to enter unique_responses
IsNewResponse(cleaned, seen) ==
    /\ Len(cleaned) > 5
    /\ Lower(cleaned) \notin seen
    /\ ~StartsWith(StrAnd, cleaned)
    /\ Len(SplitWhitespace(cleaned)) > 1

RECURSIVE UniqueResponses(_, _)
\* unique_responses: the loop over found_responses with its set seen
UniqueResponses(found_responses, seen) ==
    IF found_responses = <<>> THEN <<>>
    ELSE IF IsNewResponse(Strip(Head(found_responses)), seen)
    THEN <<Strip(Head(found_responses))>>
         \o UniqueResponses(Tail(found_responses),
                            seen \cup {Lower(Strip(Head(found_responses)))})
    ELSE UniqueResponses(Tail(found_responses), seen)

\* "\n".join(f"• {resp.capitalize()}" for resp in unique_responses[:4])
Bulleted(shown) ==
    JoinLines([k \in 1..Len(shown) |-> StrBullet \o Capitalize(shown[k])])

\* the output when every unique response is listed
ResponseOf_NoCap(unique_responses) ==
    IF Len(unique_responses) = 1 THEN Capitalize(unique_responses[1])
    ELSE IF Len(unique_responses) > 1 THEN Bulleted(unique_responses)
    ELSE GenericSomatic

\* the three ways of _extract_somatic_cognitive_response
ResponseOf(unique_responses) ==
    IF Len(unique_responses) = 1 THEN Capitalize(unique_responses[1])
    ELSE IF Len(unique_responses) > 1 THEN Bulleted(Take(unique_responses, 4))
    ELSE GenericSomatic

_extract_somatic_cognitive_response(text) ==
    ResponseOf(UniqueResponses(SomaticMatches(Lower(text))
                               \o IntensityMatches(Lower(text)), {}))

_generate_generic_insight(text, somatic_cognitive_response) ==
    IF AnyIn(somatic_override_words, Lower(somatic_cognitive_response))
    THEN InsightSomaticOverride
    ELSE IF AnyIn(anxiety_words, Lower(somatic_cognitive_response))
    THEN InsightAnxiety
    ELSE InsightDefault

_generate_pattern_insight(pattern_type, text, trigger, somatic_cognitive_response) ==
    CASE pattern_type = "sunk_cost" -> InsightSunkCost
      [] pattern_type = "anticipatory_vigilance" -> InsightAnticipatoryVigilance
      [] pattern_type = "emotional_pendulum" -> InsightEmotionalPendulum
      [] pattern_type = "compliance_reflex" -> InsightComplianceReflex
      [] pattern_type = "boundary_violation" -> InsightBoundaryViolation
      [] pattern_type = "performance_anxiety" -> InsightPerformanceAnxiety
      [] pattern_type = "family_dynamics" -> InsightFamilyDynamics
      [] pattern_type = "financial_anxiety" -> InsightFinancialAnxiety
      [] OTHER -> _generate_generic_insight(text, somatic_cognitive_response)

\* sum(1 for keyword in keywords if keyword in text_lower)
Score(keywords, text_lower) ==
    Cardinality({k \in 1..Len(keywords) : Contains(keywords[k], text_lower)})

\* pattern_scores: the score of each pattern (those of score 0 are left out
\* of the dictionary)
PatternScores(text_lower) ==
    [k \in 1..Len(pattern_indicators) |->
        Score(pattern_indicators[k].keywords, text_lower)]

\* the last pattern of the highest score
PrimaryPattern_LastMax(score) ==
    CHOOSE i \in 1..Len(score) :
        /\ \A j \in 1..Len(score) : score[j] <= score[i]
        /\ \A j \in (i + 1)..Len(score) : score[j] < score[i]

\* max(pattern_scores, key=pattern_scores.get): the first pattern of the
\* highest score
PrimaryPattern(score) ==
    CHOOSE i \in 1..Len(score) :
        /\ \A j \in 1..Len(score) : score[j] <= score[i]
        /\ \A j \in 1..(i - 1) : score[j] < score[i]

\* the two ways of _generate_insight, given the scores
InsightOf(score, text, trigger, somatic_cognitive_response) ==
    IF \E k \in 1..Len(score) : score[k] > 0
    THEN _generate_pattern_insight(pattern_indicators[PrimaryPattern(score)].pattern_name,
                                   text, trigger, somatic_cognitive_response)
    ELSE _generate_generic_insight(text, somatic_cognitive_response)

_generate_insight(text, trigger, somatic_cognitive_response) ==
    InsightOf(PatternScores(Lower(text)), text, trigger, somatic_cognitive_response)

----------------------------------------------------------------------------
(* Inputs *)

\* the texts a caller sends: "yes", "no", "nay", " OK", "hm", "report"
Texts ==
    { <<"y","e","s">>, <<"n","o">>, <<"n","a","y">>, <<" ","O","K">>,
      <<"h","m">>, <<"r","e","p","o","r","t">> }

\* the session id of the single-session and clock specifications: "a"
SessionIds == { <<"a">> }

\* the texts of the session-table and clock specifications: "yes", "no"
ShortTexts == { <<"y","e","s">>, <<"n","o">> }

\* the session ids a caller passes in the session-table specification:
\* "", "a", and the id start_session returned
TableSessionIds == { <<>>, <<"a">>, <<"u","1">> }

\* the values str(uuid.uuid4())[:8] takes
UuidPool == { <<"u","1">> }

\* the narratives create_structured_log is called with: a first sentence
\* followed by a second one
\* the first sentences: "", "I keep checking my phone. ", the same with a run
\* of spaces, "My chest felt tight. ", and three spaces
FirstSentences ==
    { <<>>,
      <<"I"," ","k","e","e","p"," ","c","h","e","c","k","i","n","g"," ","m","y"," ","p",
        "h","o","n","e","."," ">>,
      <<"I"," ","k","e","e","p"," ","c","h","e","c","k","i","n","g"," ","m","y"," "," ",
        " "," "," "," "," "," ","p","h","o","n","e","."," ">>,
      <<"M","y"," ","c","h","e","s","t"," ","f","e","l","t"," ","t","i","g","h","t",".",
        " ">>,
      <<" "," "," ">> }

\* the second sentences: "", "hm", a spending, two and six bodily reactions,
\* a single-word one with an intensity, a chest
\* reaction with an intensity, two feelings, a fight, a cost
SecondSentences ==
    { <<>>,
      <<"h","m">>,
      <<"I"," ","s","p","e","n","t"," ","m","o","n","e","y"," ","o","n"," ","m","y"," ",
        "f","a","t","h","e","r",".">>,
      <<"M","y"," ","h","e","a","r","t"," ","i","s"," ","r","a","c","i","n","g"," ","a",
        "n","d"," ","m","y"," ","s","t","o","m","a","c","h"," ","i","s"," ","i","n"," ",
        "k","n","o","t","s",".">>,
      <<"H","a","n","d","s"," ","s","h","a","k","i","n","g",","," ","j","a","w"," ","c",
        "l","e","n","c","h","e","d",","," ","b","r","e","a","t","h","i","n","g"," ","s",
        "h","a","l","l","o","w",","," ","t","h","o","u","g","h","t","s"," ","r","a","c",
        "i","n","g",","," ","s","u","d","d","e","n"," ","r","e","a","c","t","i","o","n",
        ".">>,
      <<"N","a","u","s","e","a"," ","a","n","d"," ","m","i","l","d"," ","a","n","x","i",
        "e","t","y",".">>,
      <<"M","y"," ","c","h","e","s","t"," ","f","e","l","t"," ","t","i","g","h","t"," ",
        "w","i","t","h"," ","m","i","l","d"," ","a","n","x","i","e","t","y",".">>,
      <<"F","e","e","l","i","n","g"," ","t","e","r","r","i","b","l","e"," ","a","b","o",
        "u","t"," ","i","t"," ","n","o","w",".">>,
      <<"F","e","e","l","i","n","g"," ","t","e","r","r","i","b","l","e"," ","a","n","d",
        " ","b","a","d",".">>,
      <<"I"," ","h","a","d"," ","a"," ","f","i","g","h","t"," ","w","i","t","h"," ","m",
        "y"," ","s","i","s","t","e","r",".">>,
      <<"I","t"," ","c","o","s","t"," ","a"," ","l","o","t",".">> }

\* narratives with U+0130, whose lower case is longer than they are: thirty of
\* them before "decided to", twelve before "feel guilty"
DottedTexts ==
    { <<CapitalIDot,CapitalIDot,CapitalIDot,CapitalIDot,CapitalIDot,CapitalIDot,
        CapitalIDot,CapitalIDot,CapitalIDot,CapitalIDot,CapitalIDot,CapitalIDot,
        CapitalIDot,CapitalIDot,CapitalIDot,CapitalIDot,CapitalIDot,CapitalIDot,
        CapitalIDot,CapitalIDot,CapitalIDot,CapitalIDot,CapitalIDot,CapitalIDot,
        CapitalIDot,CapitalIDot,CapitalIDot,CapitalIDot,CapitalIDot,CapitalIDot,"d","e",
        "c","i","d","e","d"," ","t","o">>,
      <<CapitalIDot,CapitalIDot,CapitalIDot,CapitalIDot,CapitalIDot,CapitalIDot,
        CapitalIDot,CapitalIDot,CapitalIDot,CapitalIDot,CapitalIDot,CapitalIDot,"f","e",
        "e","l"," ","g","u","i","l","t","y">> }

ExtractTexts ==
    {a \o b : a \in FirstSentences, b \in SecondSentences} \cup DottedTexts

\* the insight is generated from the trigger and the response extracted
WithInsight(situation_text, situation, trigger, somatic_cognitive_response) ==
    [situation |-> situation,
     trigger |-> trigger,
     somatic_cognitive_response |-> somatic_cognitive_response,
     insight |-> _generate_insight(situation_text, trigger,
                                   somatic_cognitive_response)]

\* the four components create_structured_log extracts from a text
Components(situation_text) ==
    WithInsight(situation_text,
                _extract_situation(situation_text),
                _extract_trigger(situation_text),
                _extract_somatic_cognitive_response(situation_text))

\* the components of the texts of the specifications, computed once
Extracted ==
    [situation_text \in Texts \cup ShortTexts \cup ExtractTexts |->
        Components(situation_text)]

\* the log entry create_structured_log builds from the components
StructuredLog(components, situation_text, log_id, t) ==
    [date |-> strftime_Ymd(t),
     time_of_day |-> get_time_of_day(t),
     header |-> get_header_format(t),
     situation |-> components.situation,
     trigger |-> components.trigger,
     somatic_cognitive_response |-> components.somatic_cognitive_response,
     insight |-> components.insight,
     log_id |-> log_id,
     timestamp |-> t,
     raw_situation |-> situation_text]

create_structured_log(situation_text, log_id, t) ==
    StructuredLog(IF situation_text \in DOMAIN Extracted
                  THEN Extracted[situation_text]
                  ELSE Components(situation_text),
                  situation_text, log_id, t)

format_log_for_confirmation(log) ==
    log.header
        \o <<"\n","\n","S","i","t","u","a","t","i","o","n",":"," ">> \o log.situation
        \o <<"\n","T","r","i","g","g","e","r",":"," ">> \o log.trigger
        \o <<"\n","S","o","m","a","t","i","c"," ","C","o","g","n","i","t","i","v","e",
             " ","R","e","s","p","o","n","s","e",":"," ">>
        \o log.somatic_cognitive_response
        \o <<"\n","I","n","s","i","g","h","t",":"," ">> \o log.insight

base_sequence ==
    << <<"1","."," ","I","d","e","n","t","i","f","y"," ","c","u","r","r","e","n","t",
         " ","p","h","y","s","i","c","a","l"," ","s","e","n","s","a","t","i","o","n","s">>,
       <<"2","."," ","T","a","k","e"," ","3"," ","m","e","a","s","u","r","e","d"," ",
         "b","r","e","a","t","h","s"," ","(","4"," ","i","n",","," ","8"," ","o","u",
         "t",")">>,
       <<"3","."," ","N","a","m","e"," ","t","h","e"," ","e","m","o","t","i","o","n",
         " ","w","i","t","h","o","u","t"," ","j","u","d","g","m","e","n","t">>,
       <<"4","."," ","L","o","c","a","t","e"," ","t","h","e"," ","t","r","i","g","g",
         "e","r"," ","s","o","u","r","c","e">>,
       <<"5","."," ","E","x","e","c","u","t","e"," ","r","e","s","p","o","n","s","e",
         " ","p","r","o","t","o","c","o","l">> >>

\* "6. Address chest tension with focused breathing"
StepChest ==
    <<"6","."," ","A","d","d","r","e","s","s"," ","c","h","e","s","t"," ","t","e","n",
      "s","i","o","n"," ","w","i","t","h"," ","f","o","c","u","s","e","d"," ","b","r",
      "e","a","t","h","i","n","g">>

\* "6. Remove access to checking stimulus"
StepChecking ==
    <<"6","."," ","R","e","m","o","v","e"," ","a","c","c","e","s","s"," ","t","o"," ",
      "c","h","e","c","k","i","n","g"," ","s","t","i","m","u","l","u","s">>

\* "6. Ground through sensory awareness"
StepAnxiety ==
    <<"6","."," ","G","r","o","u","n","d"," ","t","h","r","o","u","g","h"," ","s","e",
      "n","s","o","r","y"," ","a","w","a","r","e","n","e","s","s">>

----------------------------------------------------------------------------
(* Override sequence *)

\* the three checks as one if/elif chain: only the first that holds appends
OverrideSteps_FirstOnly(log) ==
    IF Contains(<<"c","h","e","s","t">>, Lower(log.somatic_cognitive_response))
    THEN Append(base_sequence, StepChest)
    ELSE IF Contains(<<"c","h","e","c","k","i","n","g">>, Lower(log.trigger))
    THEN Append(base_sequence, StepChecking)
    ELSE IF Contains(<<"a","n","x","i","e","t","y">>, Lower(log.somatic_cognitive_response))
    THEN Append(base_sequence, StepAnxiety)
    ELSE base_sequence

\* the steps of the sequence, before they are joined
OverrideSteps(log) ==
    LET s1 == IF Contains(<<"c","h","e","s","t">>, Lower(log.somatic_cognitive_response))
              THEN Append(base_sequence, StepChest) ELSE base_sequence
        s2 == IF Contains(<<"c","h","e","c","k","i","n","g">>, Lower(log.trigger))
              THEN Append(s1, StepChecking) ELSE s1
        s3 == IF Contains(<<"a","n","x","i","e","t","y">>, Lower(log.somatic_cognitive_response))
              THEN Append(s2, StepAnxiety) ELSE s2
    IN  s3

_generate_override_sequence(log) == JoinLines(OverrideSteps(log))

----------------------------------------------------------------------------
(* ConversationState and ConversationSession *)

INITIAL == "initial"

CONFIRMING_LOG == "confirming_log"

ASKING_OVERRIDE_READY == "asking_override_ready"

PROVIDING_OVERRIDE == "providing_override"

CHECKING_OVERRIDE_RESULT == "checking_override_result"

COMPLETE == "complete"

ConversationState ==
    {INITIAL, CONFIRMING_LOG, ASKING_OVERRIDE_READY, PROVIDING_OVERRIDE,
     CHECKING_OVERRIDE_RESULT, COMPLETE}

\* the session object start_session constructs
ConversationSession(session_id, t) ==
    [session_id |-> session_id,
     state |-> INITIAL,
     current_log |-> None,
     conversation_history |-> <<>>,
     created_at |-> t,
     completed_at |-> None]

\* self.sessions[key] = session
Put(table, key, session) ==
    [k \in (DOMAIN table) \cup {key} |-> IF k = key THEN session ELSE table[k]]

----------------------------------------------------------------------------
(* Classification of a reply *)

_is_affirmative(text) ==
    LET text_lower == Strip(Lower(text))
    IN  \/ InList(text_lower, affirmative_words)
        \/ \E i \in 1..Len(Take(affirmative_words, 4)) :
              Contains(affirmative_words[i], text_lower)

_is_negative(text) ==
    LET text_lower == Strip(Lower(text))
    IN  \/ InList(text_lower, negative_words)
        \/ \E i \in 1..Len(Take(negative_words, 4)) :
              Contains(negative_words[i], text_lower)

_is_report_request(text) ==
    LET text_lower == Lower(text)
    IN  \E i \in 1..Len(report_indicators) :
            Contains(report_indicators[i], text_lower)

_generate_trigger_report(session_id) == RespNotImplemented

----------------------------------------------------------------------------
(* The state handlers.  Each yields the session after the handler, the      *)
(* response it returns, and how many times it called _save_session and      *)
(* create_structured_log.                                                   *)

Outcome(session, response, saves, extractions) ==
    [session |-> session, response |-> response, raised |-> FALSE,
     saves |-> saves, extractions |-> extractions]

\* the handler raised: there is no response, and the caller does not reach
\* _log_interaction
Raised(session) ==
    [session |-> session, response |-> <<>>, raised |-> TRUE,
     saves |-> 0, extractions |-> 0]

\* f"{session.session_id}_{datetime.now().strftime('%H%M')}"
LogId(session, t) == session.session_id \o <<"_">> \o strftime_HHMM(t)

\* _handle_initial_input once the log entry is created
Logged(session, log) ==
    Outcome([session EXCEPT !.current_log = Some(log),
                            !.state = CONFIRMING_LOG],
            StrSituationLogged \o log.log_id \o <<"\n", "\n">>
                \o format_log_for_confirmation(log) \o StrConfirmAccuracy,
            0, 1)

_handle_initial_input(session, user_input, t) ==
    Logged(session, create_structured_log(user_input, LogId(session, t), t))

\* the rejection branch without `session.current_log = None`
_handle_log_confirmation_KeepsRecord(session, user_input) ==
    IF _is_affirmative(user_input)
    THEN Outcome([session EXCEPT !.state = ASKING_OVERRIDE_READY],
                 RespOverrideReady, 0, 0)
    ELSE IF _is_negative(user_input)
    THEN Outcome([session EXCEPT !.state = INITIAL], RespDiscarded, 0, 0)
    ELSE Outcome(session, RespConfirmAgain, 0, 0)

\* the acceptance branch dropping the record
_handle_log_confirmation_DropsRecord(session, user_input) ==
    IF _is_affirmative(user_input)
    THEN Outcome([session EXCEPT !.state = ASKING_OVERRIDE_READY,
                                 !.current_log = None],
                 RespOverrideReady, 0, 0)
    ELSE IF _is_negative(user_input)
    THEN Outcome([session EXCEPT !.state = INITIAL, !.current_log = None],
                 RespDiscarded, 0, 0)
    ELSE Outcome(session, RespConfirmAgain, 0, 0)

\* the negative test made before the affirmative one
_handle_log_confirmation_NegativeFirst(session, user_input) ==
    IF _is_negative(user_input)
    THEN Outcome([session EXCEPT !.state = INITIAL, !.current_log = None],
                 RespDiscarded, 0, 0)
    ELSE IF _is_affirmative(user_input)
    THEN Outcome([session EXCEPT !.state = ASKING_OVERRIDE_READY],
                 RespOverrideReady, 0, 0)
    ELSE Outcome(session, RespConfirmAgain, 0, 0)

_handle_log_confirmation(session, user_input) ==
    IF _is_affirmative(user_input)
    THEN Outcome([session EXCEPT !.state = ASKING_OVERRIDE_READY],
                 RespOverrideReady, 0, 0)
    ELSE IF _is_negative(user_input)
    THEN Outcome([session EXCEPT !.state = INITIAL, !.current_log = None],
                 RespDiscarded, 0, 0)
    ELSE Outcome(session, RespConfirmAgain, 0, 0)

\* the closing branch without the _save_session call
_handle_override_ready_response_NoSave(session, user_input, t) ==
    IF _is_affirmative(user_input)
    THEN IF session.current_log = None
         THEN Raised([session EXCEPT !.state = PROVIDING_OVERRIDE])
         ELSE Outcome([session EXCEPT !.state = PROVIDING_OVERRIDE],
                      StrOverrideSequence
                          \o _generate_override_sequence(session.current_log[1])
                          \o StrExecuteSequence,
                      0, 0)
    ELSE IF _is_negative(user_input)
    THEN Outcome([session EXCEPT !.state = COMPLETE, !.completed_at = Some(t)],
                 RespClosed, 0, 0)
    ELSE Outcome(session, RespOverrideReadyAgain, 0, 0)

\* the affirmative branch going straight to CHECKING_OVERRIDE_RESULT
_handle_override_ready_response_SkipsProvision(session, user_input, t) ==
    IF _is_affirmative(user_input)
    THEN IF session.current_log = None
         THEN Raised([session EXCEPT !.state = CHECKING_OVERRIDE_RESULT])
         ELSE Outcome([session EXCEPT !.state = CHECKING_OVERRIDE_RESULT],
                      StrOverrideSequence
                          \o _generate_override_sequence(session.current_log[1])
                          \o StrExecuteSequence,
                      0, 0)
    ELSE IF _is_negative(user_input)
    THEN Outcome([session EXCEPT !.state = COMPLETE, !.completed_at = Some(t)],
                 RespClosed, 1, 0)
    ELSE Outcome(session, RespOverrideReadyAgain, 0, 0)

_handle_override_ready_response(session, user_input, t) ==
    IF _is_affirmative(user_input)
    THEN IF session.current_log = None
         THEN \* log.somatic_cognitive_response on None: AttributeError
              Raised([session EXCEPT !.state = PROVIDING_OVERRIDE])
         ELSE Outcome([session EXCEPT !.state = PROVIDING_OVERRIDE],
                      StrOverrideSequence
                          \o _generate_override_sequence(session.current_log[1])
                          \o StrExecuteSequence,
                      0, 0)
    ELSE IF _is_negative(user_input)
    THEN Outcome([session EXCEPT !.state = COMPLETE, !.completed_at = Some(t)],
                 RespClosed, 1, 0)
    ELSE Outcome(session, RespOverrideReadyAgain, 0, 0)

\* the handler closing the session instead of asking for the result
_handle_override_provision_Closes(session, user_input) ==
    Outcome([session EXCEPT !.state = COMPLETE], RespDidResolve, 0, 0)

\* the handler appending the annotation that belongs to the closing turn
_handle_override_provision_Annotates(session, user_input) ==
    Outcome([session EXCEPT !.state = CHECKING_OVERRIDE_RESULT,
                            !.current_log[1].raw_situation =
                                @ \o StrOverrideResult \o user_input],
            RespDidResolve, 0, 0)

_handle_override_provision(session, user_input) ==
    Outcome([session EXCEPT !.state = CHECKING_OVERRIDE_RESULT],
            RespDidResolve, 0, 0)

\* the closing turn running the extractor on its input
_handle_override_result_Reextracts(session, user_input, t) ==
    Outcome([session EXCEPT !.current_log =
                                Some(create_structured_log(user_input,
                                                           LogId(session, t), t)),
                            !.state = COMPLETE,
                            !.completed_at = Some(t)],
            RespClosed, 1, 1)

_handle_override_result(session, user_input, t) ==
    LET annotated ==
            IF session.current_log # None
            THEN [session EXCEPT !.current_log[1].raw_situation =
                                     @ \o StrOverrideResult \o user_input]
            ELSE session
    IN  Outcome([annotated EXCEPT !.state = COMPLETE, !.completed_at = Some(t)],
                RespClosed, 1, 0)

\* the interaction assigned to the history instead of appended
_log_interaction_Replaces(session, user_input, response, t) ==
    [session EXCEPT !.conversation_history =
        <<[timestamp |-> t,
           state |-> session.state,
           user_input |-> user_input,
           response |-> response]>>]

_log_interaction(session, user_input, response, t) ==
    [session EXCEPT !.conversation_history =
        Append(@, [timestamp |-> t,
                   state |-> session.state,
                   user_input |-> user_input,
                   response |-> response])]

\* `self._log_interaction(session, user_input, response)` and the return;
\* a handler that raised does not get there
LogTurn(out, user_input, t) ==
    IF out.raised THEN out
    ELSE [out EXCEPT !.session = _log_interaction(@, user_input, out.response, t)]

\* the `if ... elif ... else` chain over session.state
Dispatch(session, user_input, t) ==
    IF session.state = INITIAL
    THEN _handle_initial_input(session, user_input, t)
    ELSE IF session.state = CONFIRMING_LOG
    THEN _handle_log_confirmation(session, user_input)
    ELSE IF session.state = ASKING_OVERRIDE_READY
    THEN _handle_override_ready_response(session, user_input, t)
    ELSE IF session.state = PROVIDING_OVERRIDE
    THEN _handle_override_provision(session, user_input)
    ELSE IF session.state = CHECKING_OVERRIDE_RESULT
    THEN _handle_override_result(session, user_input, t)
    ELSE IF session.state = COMPLETE
    THEN Outcome(session, RespClosed, 0, 0)
    ELSE Outcome([session EXCEPT !.state = INITIAL], RespSystemError, 0, 0)

\* the dispatch without the branch for COMPLETE
ProcessTurn_NoCompleteBranch(session, user_input, t) ==
    LogTurn(IF _is_report_request(user_input) /\ session.state = INITIAL
            THEN Outcome(session, _generate_trigger_report(session.session_id), 0, 0)
            ELSE IF session.state = COMPLETE
            THEN Outcome([session EXCEPT !.state = INITIAL], RespSystemError, 0, 0)
            ELSE Dispatch(session, user_input, t),
            user_input, t)

\* the report check without the test for INITIAL
ProcessTurn_ReportAnyState(session, user_input, t) ==
    LogTurn(IF _is_report_request(user_input)
            THEN Outcome(session, _generate_trigger_report(session.session_id), 0, 0)
            ELSE Dispatch(session, user_input, t),
            user_input, t)

\* the report branch returning without _log_interaction
ProcessTurn_ReportNotLogged(session, user_input, t) ==
    IF _is_report_request(user_input) /\ session.state = INITIAL
    THEN Outcome(session, _generate_trigger_report(session.session_id), 0, 0)
    ELSE LogTurn(Dispatch(session, user_input, t), user_input, t)

\* the report check made in CONFIRMING_LOG as well as in INITIAL
ProcessTurn_ReportWhileConfirming(session, user_input, t) ==
    LogTurn(IF /\ _is_report_request(user_input)
               /\ session.state \in {INITIAL, CONFIRMING_LOG}
            THEN Outcome(session, _generate_trigger_report(session.session_id), 0, 0)
            ELSE Dispatch(session, user_input, t),
            user_input, t)

\* process_user_input from `session = self.sessions[session_id]` on
ProcessTurn(session, user_input, t) ==
    LogTurn(IF _is_report_request(user_input) /\ session.state = INITIAL
            THEN Outcome(session, _generate_trigger_report(session.session_id), 0, 0)
            ELSE Dispatch(session, user_input, t),
            user_input, t)

----------------------------------------------------------------------------
(* The observed call: `last` records the most recent public call, what it   *)
(* returned and what it did to collaborators.                               *)

Call(op, session_id, key, created, user_input, response, raised, from, saves, extractions) ==
    [op |-> op, session_id |-> session_id, key |-> key, created |-> created,
     user_input |-> user_input, response |-> response, raised |-> raised,
     from |-> from, saves |-> saves, extractions |-> extractions]

RECURSIVE SumHistory(_, _)
SumHistory(table, keys) ==
    IF keys = {} THEN 0
    ELSE LET k == CHOOSE x \in keys : TRUE
         IN  Len(table[k].conversation_history) + SumHistory(table, keys \ {k})

\* the number of interactions recorded in the table
TotalHistory(table) == SumHistory(table, DOMAIN table)

----------------------------------------------------------------------------
(* Operations *)

Init ==
    /\ sessions = <<>>
    /\ now = 0
    /\ last = Call("init", <<>>, <<>>, FALSE, <<>>, <<>>, FALSE, INITIAL, 0, 0)

\* the key start_session stores the session under
SessionKey(session_id, uuid) == IF session_id = <<>> THEN uuid ELSE session_id

\* start_session keeping the session an id already has
start_session_KeepsExisting(session_id) ==
    \E uuid \in UuidPool :
        LET key == SessionKey(session_id, uuid)
        IN  /\ sessions' = IF key \in DOMAIN sessions THEN sessions
                           ELSE Put(sessions, key, ConversationSession(key, now))
            /\ last' = Call("start_session", session_id, key, TRUE,
                            <<>>, <<>>, FALSE, INITIAL, 0, 0)
            /\ UNCHANGED now

start_session(session_id) ==
    \E uuid \in UuidPool :
        LET key == SessionKey(session_id, uuid)
        IN  /\ sessions' = Put(sessions, key, ConversationSession(key, now))
            /\ last' = Call("start_session", session_id, key, TRUE,
                            <<>>, <<>>, FALSE, INITIAL, 0, 0)
            /\ UNCHANGED now

\* the turn of the session stored under key in table
Turn(session_id, key, created, table, user_input, out) ==
    /\ sessions' = Put(table, key, out.session)
    /\ last' = Call("process_user_input", session_id, key, created,
                    user_input, out.response, out.raised,
                    table[key].state, out.saves, out.extractions)
    /\ UNCHANGED now

\* `if not session_id or session_id not in self.sessions:
\*      session_id = self.start_session(session_id)`, then the turn
TurnOfNew(session_id, key, user_input) ==
    Turn(session_id, key, TRUE, Put(sessions, key, ConversationSession(key, now)),
         user_input, ProcessTurn(ConversationSession(key, now), user_input, now))

process_user_input(session_id, user_input) ==
    IF session_id \in DOMAIN sessions
    THEN Turn(session_id, session_id, FALSE, sessions, user_input,
              ProcessTurn(sessions[session_id], user_input, now))
    ELSE \E uuid \in UuidPool :
             TurnOfNew(session_id, SessionKey(session_id, uuid), user_input)

\* reset_session resetting every session of the table
reset_session_All(session_id) ==
    /\ sessions' =
          IF session_id \in DOMAIN sessions
          THEN [k \in DOMAIN sessions |->
                   [sessions[k] EXCEPT !.state = INITIAL,
                                       !.current_log = None,
                                       !.conversation_history = <<>>]]
          ELSE sessions
    /\ last' = Call("reset_session", session_id, session_id, FALSE,
                    <<>>, <<>>, FALSE, INITIAL, 0, 0)
    /\ UNCHANGED now

\* reset_session without `session.current_log = None`
reset_session_KeepsRecord(session_id) ==
    /\ sessions' =
          IF session_id \in DOMAIN sessions
          THEN Put(sessions, session_id,
                   [sessions[session_id] EXCEPT !.state = INITIAL,
                                                !.conversation_history = <<>>])
          ELSE sessions
    /\ last' = Call("reset_session", session_id, session_id, FALSE,
                    <<>>, <<>>, FALSE, INITIAL, 0, 0)
    /\ UNCHANGED now

reset_session(session_id) ==
    /\ sessions' =
          IF session_id \in DOMAIN sessions
          THEN Put(sessions, session_id,
                   [sessions[session_id] EXCEPT !.state = INITIAL,
                                                !.current_log = None,
                                                !.conversation_history = <<>>])
          ELSE sessions
    /\ last' = Call("reset_session", session_id, session_id, FALSE,
                    <<>>, <<>>, FALSE, INITIAL, 0, 0)
    /\ UNCHANGED now

\* the dictionary get_session_info returns, or None
SessionInfo(session_id) ==
    IF session_id \in DOMAIN sessions
    THEN LET session == sessions[session_id]
         IN  Some([session_id |-> session.session_id,
                   state |-> session.state,
                   created_at |-> session.created_at,
                   completed_at |-> session.completed_at,
                   current_log_id |-> IF session.current_log # None
                                      THEN Some(session.current_log[1].log_id)
                                      ELSE None,
                   interaction_count |-> Len(session.conversation_history)])
    ELSE None

\* the ids get_active_sessions returns
ActiveSessions == {k \in DOMAIN sessions : sessions[k].state # COMPLETE}

get_session_info(session_id) ==
    /\ last' = Call("get_session_info", session_id, session_id, FALSE,
                    <<>>, <<>>, FALSE, INITIAL, 0, 0)
    /\ UNCHANGED <<sessions, now>>

get_active_sessions ==
    /\ last' = Call("get_active_sessions", <<>>, <<>>, FALSE,
                    <<>>, <<>>, FALSE, INITIAL, 0, 0)
    /\ UNCHANGED <<sessions, now>>

\* the wall clock advances by a minute
Tick ==
    /\ now' = now + 1
    /\ UNCHANGED <<sessions, last>>

\* one session, every class of reply, within one minute
Next ==
    \/ \E session_id \in SessionIds : start_session(session_id)
    \/ \E session_id \in SessionIds, user_input \in Texts :
           /\ TotalHistory(sessions) < MaxHistory
           /\ process_user_input(session_id, user_input)
    \/ \E session_id \in SessionIds : reset_session(session_id)
    \/ \E session_id \in SessionIds : get_session_info(session_id)
    \/ get_active_sessions

Spec == Init /\ [][Next]_vars

\* the session table with explicit, empty and generated ids, within one minute
NextTable ==
    \/ \E session_id \in TableSessionIds : start_session(session_id)
    \/ \E session_id \in TableSessionIds, user_input \in ShortTexts :
           /\ TotalHistory(sessions) < MaxTableHistory
           /\ process_user_input(session_id, user_input)
    \/ \E session_id \in TableSessionIds : reset_session(session_id)
    \/ \E session_id \in TableSessionIds : get_session_info(session_id)
    \/ get_active_sessions

SpecTable == Init /\ [][NextTable]_vars

\* one session while the clock advances
NextClock ==
    \/ \E session_id \in SessionIds : start_session(session_id)
    \/ \E session_id \in SessionIds, user_input \in ShortTexts :
           /\ TotalHistory(sessions) < MaxClockHistory
           /\ process_user_input(session_id, user_input)
    \/ \E session_id \in SessionIds : reset_session(session_id)
    \/ \E session_id \in SessionIds : get_session_info(session_id)
    \/ get_active_sessions
    \/ (now < MaxClock /\ Tick)

SpecClock == Init /\ [][NextClock]_vars

----------------------------------------------------------------------------
(* The extractor called on its own, as test_log_creator.py does: `last`     *)
(* records the call, its arguments and what it returned.                    *)

\* the log ids a caller passes: "a_0000" and "test_001"
LogIds ==
    { <<"a","_","0","0","0","0">>, <<"t","e","s","t","_","0","0","1">> }

\* creator.create_structured_log(situation_text, log_id)
CreateLog(situation_text, log_id) ==
    /\ last' = [op |-> "create_structured_log",
                situation_text |-> situation_text,
                log_id |-> log_id,
                log |-> create_structured_log(situation_text, log_id, now)]
    /\ UNCHANGED <<sessions, now>>

\* self._generate_override_sequence(log) on the log just created
GenerateOverride ==
    /\ last.op = "create_structured_log"
    /\ last' = [op |-> "_generate_override_sequence",
                situation_text |-> last.situation_text,
                log_id |-> last.log_id,
                log |-> last.log,
                steps |-> OverrideSteps(last.log),
                override_sequence |-> _generate_override_sequence(last.log)]
    /\ UNCHANGED <<sessions, now>>

\* the extractor on every narrative, and the override sequence of every record
NextExtract ==
    \/ \E situation_text \in ExtractTexts, log_id \in LogIds :
           CreateLog(situation_text, log_id)
    \/ GenerateOverride
    \/ (now < MaxClock /\ Tick)

SpecExtract == Init /\ [][NextExtract]_vars

\* the wall clock advances by an hour
HourPasses ==
    /\ now + 60 <= MaxHour * 60
    /\ now' = now + 60
    /\ UNCHANGED <<sessions, last>>

\* the extractor called in every hour of the day
NextHours ==
    \/ \E situation_text \in ShortTexts, log_id \in LogIds :
           CreateLog(situation_text, log_id)
    \/ HourPasses

SpecHours == Init /\ [][NextHours]_vars

----------------------------------------------------------------------------
(* Two callers of process_user_input on one session, each call running one  *)
(* statement at a time.  Here `last` holds the two calls: where each        *)
(* stands (the line of its next statement), its locals, and what it did;    *)
(* and whether the callers take turns (a call begins only when no other is  *)
(* in progress) or call as they please.                                     *)

\* each caller makes at most MaxCallsEach calls
MaxCallsEach == 1

Callers == {1, 2}

\* the session both callers address: "a"
RaceKey == <<"a">>

\* the replies of the turns made before the two callers start
StartInputs ==
    { <<>>,
      << <<"n","o">> >>,
      << <<"n","o">>, <<"y","e","s">> >>,
      << <<"n","o">>, <<"y","e","s">>, <<"n","o">> >>,
      << <<"n","o">>, <<"y","e","s">>, <<"y","e","s">> >>,
      << <<"n","o">>, <<"y","e","s">>, <<"y","e","s">>, <<"n","o">> >> }

RECURSIVE AfterTurns(_, _, _)
\* the session start_session(key) made, after the first n of the turns
AfterTurns(key, inputs, n) ==
    IF n = 0 THEN ConversationSession(key, 0)
    ELSE ProcessTurn(AfterTurns(key, inputs, n - 1), inputs[n], 0).session

\* a caller that has made no call
NoCall ==
    [pc |-> "idle", user_input |-> <<>>, response |-> <<>>, log_id |-> <<>>,
     text |-> <<>>, interaction |-> None, raised |-> FALSE, saves |-> 0,
     made |-> 0]

InitRace ==
    /\ \E inputs \in StartInputs :
           sessions = Put(<<>>, RaceKey, AfterTurns(RaceKey, inputs, Len(inputs)))
    /\ now = 0
    /\ \E serialized \in BOOLEAN :
           last = [op |-> "race", serialized |-> serialized,
                   calls |-> [c \in Callers |-> NoCall]]

\* the call has returned or raised, or was never made
Returned(call) == call.pc \in {"idle", "done"}

\* a statement has run: the call and the session after it
After(call, session, pc) == [call |-> [call EXCEPT !.pc = pc], session |-> session]

\* `return <response>` of a handler and `response = ...` of its caller
Responds(call, session, response) ==
    [call |-> [call EXCEPT !.pc = "L96", !.response = response],
     session |-> session]

\* the statement raised AttributeError: the call ends without a response
Raises(call, session) ==
    [call |-> [call EXCEPT !.pc = "done", !.raised = TRUE], session |-> session]

\* the statements of process_user_input (lines 68 to 97) and of
\* _log_interaction (lines 227 to 233)
process_user_input_at(call, session, t) ==
    CASE call.pc = "L68" -> After(call, session, "L74")
      [] call.pc = "L74" ->
            IF _is_report_request(call.user_input) /\ session.state = INITIAL
            THEN After(call, session, "L75")
            ELSE After(call, session, "L80")
      [] call.pc = "L75" ->
            Responds(call, session, _generate_trigger_report(session.session_id))
      [] call.pc = "L80" ->
            After(call, session, IF session.state = INITIAL THEN "L103" ELSE "L82")
      [] call.pc = "L82" ->
            After(call, session,
                  IF session.state = CONFIRMING_LOG THEN "L119" ELSE "L84")
      [] call.pc = "L84" ->
            After(call, session,
                  IF session.state = ASKING_OVERRIDE_READY THEN "L136" ELSE "L86")
      [] call.pc = "L86" ->
            After(call, session,
                  IF session.state = PROVIDING_OVERRIDE THEN "L153" ELSE "L88")
      [] call.pc = "L88" ->
            After(call, session,
                  IF session.state = CHECKING_OVERRIDE_RESULT THEN "L160" ELSE "L90")
      [] call.pc = "L90" ->
            After(call, session, IF session.state = COMPLETE THEN "L91" ELSE "L93")
      [] call.pc = "L91" -> Responds(call, session, RespClosed)
      [] call.pc = "L93" ->
            After([call EXCEPT !.response = RespSystemError], session, "L94")
      [] call.pc = "L94" ->
            After(call, [session EXCEPT !.state = INITIAL], "L96")
      [] call.pc = "L96" ->
            After([call EXCEPT !.interaction =
                       Some([timestamp |-> t, state |-> session.state,
                             user_input |-> call.user_input,
                             response |-> call.response])],
                  session, "L233")
      [] call.pc = "L233" ->
            After(call,
                  [session EXCEPT !.conversation_history =
                       Append(@, call.interaction[1])],
                  "done")

\* the statements of _handle_initial_input (lines 103 to 114)
_handle_initial_input_at(call, session, t) ==
    CASE call.pc = "L103" ->
            After([call EXCEPT !.log_id = LogId(session, t)], session, "L106")
      [] call.pc = "L106" ->
            After(call,
                  [session EXCEPT !.current_log =
                       Some(create_structured_log(call.user_input, call.log_id, t))],
                  "L109")
      [] call.pc = "L109" ->
            IF session.current_log = None
            THEN Raises(call, session)
            ELSE After([call EXCEPT !.text =
                            format_log_for_confirmation(session.current_log[1])],
                       session, "L112")
      [] call.pc = "L112" ->
            After(call, [session EXCEPT !.state = CONFIRMING_LOG], "L114")
      [] call.pc = "L114" ->
            Responds(call, session,
                     StrSituationLogged \o call.log_id \o <<"\n", "\n">>
                         \o call.text \o StrConfirmAccuracy)

\* the statements of _handle_log_confirmation (lines 119 to 131)
_handle_log_confirmation_at(call, session) ==
    CASE call.pc = "L119" ->
            After(call, session,
                  IF _is_affirmative(call.user_input) THEN "L120" ELSE "L123")
      [] call.pc = "L120" ->
            After(call, [session EXCEPT !.state = ASKING_OVERRIDE_READY], "L121")
      [] call.pc = "L121" -> Responds(call, session, RespOverrideReady)
      [] call.pc = "L123" ->
            After(call, session,
                  IF _is_negative(call.user_input) THEN "L125" ELSE "L131")
      [] call.pc = "L125" ->
            After(call, [session EXCEPT !.state = INITIAL], "L126")
      [] call.pc = "L126" ->
            After(call, [session EXCEPT !.current_log = None], "L127")
      [] call.pc = "L127" -> Responds(call, session, RespDiscarded)
      [] call.pc = "L131" -> Responds(call, session, RespConfirmAgain)

\* the statements of _handle_override_ready_response (lines 136 to 148)
_handle_override_ready_response_at(call, session, t) ==
    CASE call.pc = "L136" ->
            After(call, session,
                  IF _is_affirmative(call.user_input) THEN "L137" ELSE "L141")
      [] call.pc = "L137" ->
            After(call, [session EXCEPT !.state = PROVIDING_OVERRIDE], "L138")
      [] call.pc = "L138" ->
            IF session.current_log = None
            THEN Raises(call, session)
            ELSE After([call EXCEPT !.text =
                            _generate_override_sequence(session.current_log[1])],
                       session, "L139")
      [] call.pc = "L139" ->
            Responds(call, session,
                     StrOverrideSequence \o call.text \o StrExecuteSequence)
      [] call.pc = "L141" ->
            After(call, session,
                  IF _is_negative(call.user_input) THEN "L142" ELSE "L148")
      [] call.pc = "L142" ->
            After(call, [session EXCEPT !.state = COMPLETE], "L143")
      [] call.pc = "L143" ->
            After(call, [session EXCEPT !.completed_at = Some(t)], "L144")
      [] call.pc = "L144" ->
            After([call EXCEPT !.saves = @ + 1], session, "L145")
      [] call.pc = "L145" -> Responds(call, session, RespClosed)
      [] call.pc = "L148" -> Responds(call, session, RespOverrideReadyAgain)

\* the statements of _handle_override_provision (lines 153 and 154)
_handle_override_provision_at(call, session) ==
    CASE call.pc = "L153" ->
            After(call, [session EXCEPT !.state = CHECKING_OVERRIDE_RESULT], "L154")
      [] call.pc = "L154" -> Responds(call, session, RespDidResolve)

\* the statements of _handle_override_result (lines 160 to 169)
_handle_override_result_at(call, session, t) ==
    CASE call.pc = "L160" ->
            After(call, session,
                  IF session.current_log # None THEN "L162" ELSE "L165")
      [] call.pc = "L162" ->
            IF session.current_log = None
            THEN Raises(call, session)
            ELSE After(call,
                       [session EXCEPT !.current_log[1].raw_situation =
                            @ \o StrOverrideResult \o call.user_input],
                       "L165")
      [] call.pc = "L165" ->
            After(call, [session EXCEPT !.state = COMPLETE], "L166")
      [] call.pc = "L166" ->
            After(call, [session EXCEPT !.completed_at = Some(t)], "L167")
      [] call.pc = "L167" ->
            After([call EXCEPT !.saves = @ + 1], session, "L169")
      [] call.pc = "L169" -> Responds(call, session, RespClosed)

\* the function each statement belongs to
StatementsOf ==
    [process_user_input |->
         {"L68", "L74", "L75", "L80", "L82", "L84", "L86", "L88", "L90", "L91",
          "L93", "L94", "L96", "L233"},
     _handle_initial_input |-> {"L103", "L106", "L109", "L112", "L114"},
     _handle_log_confirmation |->
         {"L119", "L120", "L121", "L123", "L125", "L126", "L127", "L131"},
     _handle_override_ready_response |->
         {"L136", "L137", "L138", "L139", "L141", "L142", "L143", "L144",
          "L145", "L148"},
     _handle_override_provision |-> {"L153", "L154"},
     _handle_override_result |->
         {"L160", "L162", "L165", "L166", "L167", "L169"}]

\* the next statement of a call, run on the session as it is now
Statement(call, session, t) ==
    IF call.pc \in StatementsOf._handle_initial_input
    THEN _handle_initial_input_at(call, session, t)
    ELSE IF call.pc \in StatementsOf._handle_log_confirmation
    THEN _handle_log_confirmation_at(call, session)
    ELSE IF call.pc \in StatementsOf._handle_override_ready_response
    THEN _handle_override_ready_response_at(call, session, t)
    ELSE IF call.pc \in StatementsOf._handle_override_provision
    THEN _handle_override_provision_at(call, session)
    ELSE IF call.pc \in StatementsOf._handle_override_result
    THEN _handle_override_result_at(call, session, t)
    ELSE process_user_input_at(call, session, t)

\* the call and the session are replaced by those a statement left
Ran(caller, after) ==
    /\ last' = [last EXCEPT !.calls[caller] = after.call]
    /\ sessions' = [sessions EXCEPT ![RaceKey] = after.session]
    /\ UNCHANGED now

\* a call begun whether or not another call is in progress
BeginCall_Unlocked(caller, user_input) ==
    /\ Returned(last.calls[caller])
    /\ last.calls[caller].made < MaxCallsEach
    /\ last' = [last EXCEPT !.calls[caller] =
                    [@ EXCEPT !.pc = "L68", !.user_input = user_input,
                              !.response = <<>>, !.log_id = <<>>,
                              !.text = <<>>, !.interaction = None,
                              !.made = @ + 1]]
    /\ UNCHANGED <<sessions, now>>

\* a caller calls process_user_input(RaceKey, user_input); when the
\* callers take turns, only while no other call is in progress
BeginCall(caller, user_input) ==
    /\ Returned(last.calls[caller])
    /\ last.calls[caller].made < MaxCallsEach
    /\ last.serialized => \A other \in Callers : Returned(last.calls[other])
    /\ last' = [last EXCEPT !.calls[caller] =
                    [@ EXCEPT !.pc = "L68", !.user_input = user_input,
                              !.response = <<>>, !.log_id = <<>>,
                              !.text = <<>>, !.interaction = None,
                              !.made = @ + 1]]
    /\ UNCHANGED <<sessions, now>>

\* a call in progress runs its next statement
RunStatement(caller) ==
    /\ ~Returned(last.calls[caller])
    /\ Ran(caller, Statement(last.calls[caller], sessions[RaceKey], now))

NextRace ==
    \/ \E caller \in Callers, user_input \in ShortTexts :
           BeginCall(caller, user_input)
    \/ \E caller \in Callers : RunStatement(caller)

SpecRace == InitRace /\ [][NextRace]_vars

----------------------------------------------------------------------------
(* Properties *)

TypeOK ==
    /\ now \in 0..MaxClock
    /\ \A k \in DOMAIN sessions : sessions[k].state \in ConversationState

\* the last call was a process_user_input call
IsTurn == last.op = "process_user_input"

\* the session the last call worked on
LastSession == sessions[last.key]

\* this step is a process_user_input call: a turn always extends a history
TurnStep == last'.op = "process_user_input" /\ sessions' # sessions

IsPrefix(s, t) == Len(s) <= Len(t) /\ SubSeq(t, 1, Len(s)) = s

Row(applies, next) == IF applies THEN {next} ELSE {}

\* the next states the rows of the transition table give for a state and a
\* text; a text that is both affirmative and negative matches two rows
TableNextStates(state, text) ==
    IF state = INITIAL
    THEN Row(_is_report_request(text), INITIAL)
         \cup Row(~_is_report_request(text), CONFIRMING_LOG)
    ELSE IF state = CONFIRMING_LOG
    THEN Row(_is_affirmative(text), ASKING_OVERRIDE_READY)
         \cup Row(_is_negative(text), INITIAL)
         \cup Row(~_is_affirmative(text) /\ ~_is_negative(text), CONFIRMING_LOG)
    ELSE IF state = ASKING_OVERRIDE_READY
    THEN Row(_is_affirmative(text), PROVIDING_OVERRIDE)
         \cup Row(_is_negative(text), COMPLETE)
         \cup Row(~_is_affirmative(text) /\ ~_is_negative(text),
                  ASKING_OVERRIDE_READY)
    ELSE IF state = PROVIDING_OVERRIDE THEN {CHECKING_OVERRIDE_RESULT}
    ELSE IF state = CHECKING_OVERRIDE_RESULT THEN {COMPLETE}
    ELSE IF state = COMPLETE THEN {COMPLETE}
    ELSE {}

\* C1: every process_user_input call, in any of the six states and for any
\* text, returns a non-empty response, leaves the session in one of the six
\* states, namely one the transition table gives for the state and the text,
\* and never returns the defensive "System error" response.
C1_Totality ==
    IsTurn =>
        /\ ~last.raised
        /\ last.response # <<>>
        /\ last.response # RespSystemError
        /\ last.from \in ConversationState
        /\ LastSession.state \in ConversationState
        /\ LastSession.state \in TableNextStates(last.from, last.user_input)

\* a turn taken in COMPLETE with a text that is affirmative and negative
C1_Witness ==
    /\ IsTurn
    /\ last.from = COMPLETE
    /\ _is_affirmative(last.user_input)
    /\ _is_negative(last.user_input)

\* C2 as stated: the record is non-null only in CONFIRMING_LOG,
\* ASKING_OVERRIDE_READY, PROVIDING_OVERRIDE and CHECKING_OVERRIDE_RESULT.
C2_Original ==
    \A k \in DOMAIN sessions :
        sessions[k].current_log # None =>
            sessions[k].state \in {CONFIRMING_LOG, ASKING_OVERRIDE_READY,
                                   PROVIDING_OVERRIDE, CHECKING_OVERRIDE_RESULT}

\* C2 amended: the record is non-null only in CONFIRMING_LOG,
\* ASKING_OVERRIDE_READY, PROVIDING_OVERRIDE, CHECKING_OVERRIDE_RESULT and
\* COMPLETE; it is null whenever the state is INITIAL.
C2_RecordOnlyAfterIntake ==
    \A k \in DOMAIN sessions :
        /\ sessions[k].current_log # None =>
               sessions[k].state \in {CONFIRMING_LOG, ASKING_OVERRIDE_READY,
                                      PROVIDING_OVERRIDE, CHECKING_OVERRIDE_RESULT,
                                      COMPLETE}
        /\ sessions[k].state = INITIAL => sessions[k].current_log = None

\* a session that held a record is back in INITIAL after reset_session
C2_Witness ==
    /\ last.op = "reset_session"
    /\ last.key \in DOMAIN sessions
    /\ LastSession.state = INITIAL
    /\ LastSession.current_log = None
    /\ LastSession.completed_at # None

\* C3: once a session is COMPLETE, every further process_user_input call on
\* it returns exactly "Log is closed." and leaves the state COMPLETE and the
\* record and completed_at as they were.
C3_TerminalStability ==
    [][\A k \in DOMAIN sessions :
          (TurnStep /\ last'.key = k /\ ~last'.created
              /\ sessions[k].state = COMPLETE)
          => /\ last'.response = RespClosed
             /\ sessions'[k].state = COMPLETE
             /\ sessions'[k].current_log = sessions[k].current_log
             /\ sessions'[k].completed_at = sessions[k].completed_at]_vars

\* a report request was sent to a COMPLETE session
C3_Witness ==
    /\ IsTurn
    /\ last.from = COMPLETE
    /\ _is_report_request(last.user_input)
    /\ LastSession.state = COMPLETE

\* C4 as stated: in CONFIRMING_LOG every reply that _is_negative classifies
\* negative moves the session to INITIAL with a null record and returns
\* "Log discarded. Provide situation details."
C4_Original ==
    (IsTurn /\ last.from = CONFIRMING_LOG /\ _is_negative(last.user_input))
    => /\ LastSession.state = INITIAL
       /\ LastSession.current_log = None
       /\ last.response = RespDiscarded

\* C4 amended: in CONFIRMING_LOG every reply that is negative and not
\* affirmative moves the session to INITIAL with a null record and returns
\* "Log discarded. Provide situation details."
C4_RejectionClearsRecord ==
    (IsTurn /\ last.from = CONFIRMING_LOG /\ _is_negative(last.user_input)
        /\ ~_is_affirmative(last.user_input))
    => /\ LastSession.state = INITIAL
       /\ LastSession.current_log = None
       /\ last.response = RespDiscarded

\* a reply that is negative only was given in CONFIRMING_LOG
C4_Witness ==
    /\ IsTurn
    /\ last.from = CONFIRMING_LOG
    /\ _is_negative(last.user_input)
    /\ ~_is_affirmative(last.user_input)

\* the order of the states along the conversation
Rank(state) ==
    CASE state = INITIAL -> 0
      [] state = CONFIRMING_LOG -> 1
      [] state = ASKING_OVERRIDE_READY -> 2
      [] state = PROVIDING_OVERRIDE -> 3
      [] state = CHECKING_OVERRIDE_RESULT -> 4
      [] state = COMPLETE -> 5

AllowedEdges ==
    { <<INITIAL, CONFIRMING_LOG>>,
      <<CONFIRMING_LOG, ASKING_OVERRIDE_READY>>,
      <<CONFIRMING_LOG, INITIAL>>,
      <<ASKING_OVERRIDE_READY, PROVIDING_OVERRIDE>>,
      <<ASKING_OVERRIDE_READY, COMPLETE>>,
      <<PROVIDING_OVERRIDE, CHECKING_OVERRIDE_RESULT>>,
      <<CHECKING_OVERRIDE_RESULT, COMPLETE>> }

\* C5: a process_user_input call changes the state along one of the seven
\* listed edges or not at all, and CONFIRMING_LOG -> INITIAL is the only edge
\* to an earlier state.
C5_AllowedEdges ==
    IsTurn =>
        /\ \/ <<last.from, LastSession.state>> \in AllowedEdges
           \/ last.from = LastSession.state
        /\ Rank(LastSession.state) < Rank(last.from)
               => (last.from = CONFIRMING_LOG /\ LastSession.state = INITIAL)

\* the back edge was taken by a session that was in CONFIRMING_LOG before
C5_Witness ==
    /\ IsTurn
    /\ last.from = CONFIRMING_LOG
    /\ LastSession.state = INITIAL
    /\ Len(LastSession.conversation_history) >= 3

\* C6: every process_user_input call appends exactly one entry to the
\* session's history, holding the call's input, the returned response and the
\* state of the session after the turn.
C6_OneEntryPerTurn ==
    [][(last'.op = "process_user_input" /\ (sessions' # sessions \/ last' # last))
       => LET k == last'.key
              before == IF last'.created THEN <<>>
                        ELSE sessions[k].conversation_history
              after == sessions'[k].conversation_history
          IN  /\ Len(after) = Len(before) + 1
              /\ SubSeq(after, 1, Len(before)) = before
              /\ after[Len(after)].user_input = last'.user_input
              /\ after[Len(after)].response = last'.response
              /\ after[Len(after)].state = sessions'[k].state]_vars

\* the report message was returned and recorded after earlier turns
C6_Witness ==
    /\ IsTurn
    /\ last.response = RespNotImplemented
    /\ Len(LastSession.conversation_history) >= 2
    /\ LastSession.conversation_history[Len(LastSession.conversation_history)].response
           = RespNotImplemented

\* C7 as stated: over any sequence of start_session, process_user_input,
\* reset_session, get_session_info and get_active_sessions calls the history
\* of a session id is a prefix of its history at any later point.
C7_Original ==
    [][\A k \in DOMAIN sessions :
          /\ k \in DOMAIN sessions'
          /\ IsPrefix(sessions[k].conversation_history,
                      sessions'[k].conversation_history)]_vars

\* C7 amended: a session id stays in the table, and its history at an earlier
\* point is a prefix of its history at a later point unless a reset_session
\* call on that id or a start_session call returning that id (also the one
\* process_user_input makes for an id that is not in the table) came in
\* between; reset_session leaves the history empty, start_session leaves it
\* empty and process_user_input then appends that turn's entry.
C7_AppendOnlyUntilReset ==
    [][\A k \in DOMAIN sessions :
          /\ k \in DOMAIN sessions'
          /\ \/ IsPrefix(sessions[k].conversation_history,
                         sessions'[k].conversation_history)
             \/ /\ last'.op \in {"reset_session", "start_session"}
                /\ last'.key = k
                /\ sessions'[k].conversation_history = <<>>
             \/ /\ last'.op = "process_user_input"
                /\ last'.created
                /\ last'.key = k
                /\ Len(sessions'[k].conversation_history) = 1]_vars

\* a turn extended a history that already held two entries
C7_Witness ==
    /\ IsTurn
    /\ ~last.created
    /\ Len(LastSession.conversation_history) >= 3

\* C8: _save_session is called exactly once on each turn that takes a session
\* into COMPLETE, which is the turn that sets completed_at and returns
\* "Log is closed.", and on no other turn or call.
C8_SaveOncePerCompletion ==
    /\ last.saves \in {0, 1}
    /\ last.saves = 1 <=>
           /\ IsTurn
           /\ last.from \in {ASKING_OVERRIDE_READY, CHECKING_OVERRIDE_RESULT}
           /\ LastSession.state = COMPLETE
    /\ (IsTurn /\ last.from # COMPLETE /\ LastSession.state = COMPLETE)
           => last.saves = 1
    /\ last.saves = 1 =>
           /\ last.response = RespClosed
           /\ LastSession.completed_at =
                  Some(LastSession.conversation_history[
                           Len(LastSession.conversation_history)].timestamp)
    /\ (IsTurn /\ last.from = ASKING_OVERRIDE_READY /\ last.saves = 1)
           => _is_negative(last.user_input)

\* a session was closed from CHECKING_OVERRIDE_RESULT
C8_Witness ==
    /\ IsTurn
    /\ last.from = CHECKING_OVERRIDE_RESULT
    /\ LastSession.state = COMPLETE
    /\ last.saves = 1

\* C9: over process_user_input and reset_session calls on a session,
\* completed_at is null until the session first enters COMPLETE and, once
\* assigned, keeps its value.
C9_CompletedAtSetOnce ==
    [][\A k \in DOMAIN sessions :
          (/\ \/ last'.op = "reset_session"
              \/ last'.op = "process_user_input" /\ ~last'.created
           /\ last'.key = k
           /\ k \in DOMAIN sessions')
          => /\ sessions[k].completed_at # None
                 => sessions'[k].completed_at = sessions[k].completed_at
             /\ (sessions[k].completed_at = None /\ sessions'[k].completed_at # None)
                 => (sessions[k].state # COMPLETE /\ sessions'[k].state = COMPLETE)]_vars

\* C10: process_user_input with an id that is not in the table, empty or
\* not, stores the session it creates under exactly that id, so that the id
\* is in the table afterwards.
C10_ImplicitSessionUnderGivenId ==
    (IsTurn /\ last.created)
    => /\ ~last.raised
       /\ last.key = last.session_id
       /\ last.session_id \in DOMAIN sessions
       /\ sessions[last.session_id].session_id = last.session_id
       /\ last.from = INITIAL

\* the session a turn acts on, as it is when the handler is chosen
Before(k) == IF last'.created THEN ConversationSession(k, now) ELSE sessions[k]

\* C11: a turn in INITIAL whose input holds a report-intent keyword returns
\* the "not yet implemented" message, leaves the state INITIAL and creates no
\* record; in every other state the report-intent check has no effect: the
\* response and the session are those of the state's own handler.
C11_ReportOnlyInInitial ==
    [][\A k \in DOMAIN sessions' :
          (last'.op = "process_user_input" /\ last'.key = k)
          => /\ (Before(k).state = INITIAL /\ _is_report_request(last'.user_input))
                 => /\ last'.response = RespNotImplemented
                    /\ sessions'[k].state = INITIAL
                    /\ sessions'[k].current_log = None
                    /\ last'.extractions = 0
             /\ Before(k).state # INITIAL
                 => /\ last'.response # RespNotImplemented
                    /\ last'.response =
                           Dispatch(Before(k), last'.user_input, now).response
                    /\ sessions'[k] =
                           LogTurn(Dispatch(Before(k), last'.user_input, now),
                                   last'.user_input, now).session]_vars

\* a report request was answered in INITIAL, and a later one was handled by
\* the handler of another state
C11_Witness ==
    /\ IsTurn
    /\ last.from # INITIAL
    /\ _is_report_request(last.user_input)
    /\ \E i \in 1..Len(LastSession.conversation_history) :
           LastSession.conversation_history[i].response = RespNotImplemented

\* the record is the one the session had, up to its raw text
SameRecord(before, after) ==
    /\ before # None
    /\ after # None
    /\ [after[1] EXCEPT !.raw_situation = before[1].raw_situation] = before[1]

\* C12: create_structured_log is called exactly once on each turn that takes
\* a session from INITIAL to CONFIRMING_LOG, which are the turns in INITIAL
\* whose input is no report request; the result is stored as current_log
\* with the log id "<session_id>_<HHMM>".  It is called on no other turn, and
\* no other turn creates or replaces a record.
C12_ExtractOnlyAtIntake ==
    [][\A k \in DOMAIN sessions' :
          (last'.op = "process_user_input" /\ last'.key = k)
          => /\ last'.extractions \in {0, 1}
             /\ last'.extractions = 1
                    <=> (Before(k).state = INITIAL
                         /\ ~_is_report_request(last'.user_input))
             /\ last'.extractions = 1
                    <=> (Before(k).state = INITIAL
                         /\ sessions'[k].state = CONFIRMING_LOG)
             /\ last'.extractions = 1
                    => /\ sessions'[k].current_log =
                              Some(create_structured_log(
                                       last'.user_input,
                                       sessions'[k].session_id \o <<"_">>
                                           \o strftime_HHMM(now),
                                       now))
                       /\ sessions'[k].current_log[1].log_id =
                              k \o <<"_">> \o TwoDigits((now \div 60) % 24)
                                \o TwoDigits(now % 60)
             /\ last'.extractions = 0
                    => \/ sessions'[k].current_log = None
                       \/ SameRecord(Before(k).current_log,
                                     sessions'[k].current_log)]_vars

\* a record was created at intake and a later turn in PROVIDING_OVERRIDE
\* left it in place
C12_Witness ==
    /\ IsTurn
    /\ last.from = PROVIDING_OVERRIDE
    /\ last.extractions = 0
    /\ LastSession.current_log # None
    /\ LastSession.current_log[1].log_id = last.key \o <<"_","0","0","0","0">>

\* the extracted fields of a record
ExtractedFields(log) ==
    <<log.situation, log.trigger, log.somatic_cognitive_response, log.insight>>

\* C13: a record's raw_situation is the intake text from its creation until
\* a turn processed in CHECKING_OVERRIDE_RESULT, which appends two newlines,
\* "Override Result: " and that turn's input to a text not yet annotated; no
\* other call changes it (a closure from ASKING_OVERRIDE_READY leaves it
\* unannotated), and the situation, trigger, somatic_cognitive_response and
\* insight of a stored record never change.
C13_RawTextAnnotatedAtClosure ==
    [][\A k \in DOMAIN sessions' :
          /\ (/\ k \notin DOMAIN sessions \/ sessions[k].current_log = None
              /\ sessions'[k].current_log # None)
             => /\ last'.op = "process_user_input"
                /\ last'.key = k
                /\ sessions'[k].current_log[1].raw_situation = last'.user_input
          /\ (/\ k \in DOMAIN sessions
              /\ sessions[k].current_log # None
              /\ sessions'[k].current_log # None)
             => /\ ExtractedFields(sessions'[k].current_log[1])
                       = ExtractedFields(sessions[k].current_log[1])
                /\ IF /\ last'.op = "process_user_input"
                      /\ last'.key = k
                      /\ sessions[k].state = CHECKING_OVERRIDE_RESULT
                   THEN /\ sessions'[k].current_log[1].raw_situation =
                               sessions[k].current_log[1].raw_situation
                                   \o <<"\n","\n">>
                                   \o <<"O","v","e","r","r","i","d","e"," ",
                                        "R","e","s","u","l","t",":"," ">>
                                   \o last'.user_input
                        /\ ~Contains(StrOverrideResult,
                                     sessions[k].current_log[1].raw_situation)
                   ELSE sessions'[k].current_log[1].raw_situation =
                            sessions[k].current_log[1].raw_situation]_vars

\* a session was closed from CHECKING_OVERRIDE_RESULT and its record holds
\* the intake text followed by the annotation
C13_Witness ==
    /\ IsTurn
    /\ last.from = CHECKING_OVERRIDE_RESULT
    /\ LastSession.current_log # None
    /\ LastSession.current_log[1].raw_situation =
           LastSession.conversation_history[1].user_input
               \o StrOverrideResult \o last.user_input

\* the states of the end-to-end path, as _log_interaction records them
PathStates ==
    <<CONFIRMING_LOG, ASKING_OVERRIDE_READY, PROVIDING_OVERRIDE,
      CHECKING_OVERRIDE_RESULT, COMPLETE>>

\* the first n inputs of a history are those of the end-to-end path: a
\* narrative that is no report request, two affirmative replies, any reply,
\* any reply
PathInputs(history, n) ==
    /\ n >= 1 => ~_is_report_request(history[1].user_input)
    /\ n >= 2 => _is_affirmative(history[2].user_input)
    /\ n >= 3 => _is_affirmative(history[3].user_input)

\* str.endswith(suffix)
EndsWith(suffix, s) ==
    Len(suffix) <= Len(s) /\ SubSeq(s, Len(s) - Len(suffix) + 1, Len(s)) = suffix

\* C14: in a session whose history starts empty, a narrative that is no
\* report request, an affirmative reply, an affirmative reply, any reply and
\* any reply x take the state through CONFIRMING_LOG, ASKING_OVERRIDE_READY,
\* PROVIDING_OVERRIDE, CHECKING_OVERRIDE_RESULT and COMPLETE, one state a
\* turn; after the fifth the raw text ends with "Override Result: " and x,
\* the response is "Log is closed." and get_session_info reports
\* interaction_count 5.
C14_EndToEndPath ==
    \A k \in DOMAIN sessions :
        /\ \A n \in 1..Min(5, Len(sessions[k].conversation_history)) :
               PathInputs(sessions[k].conversation_history, n)
               => sessions[k].conversation_history[n].state = PathStates[n]
        /\ (/\ Len(sessions[k].conversation_history) = 5
            /\ PathInputs(sessions[k].conversation_history, 5))
           => /\ sessions[k].state = COMPLETE
              /\ sessions[k].current_log # None
              /\ EndsWith(<<"O","v","e","r","r","i","d","e"," ",
                            "R","e","s","u","l","t",":"," ">>
                              \o sessions[k].conversation_history[5].user_input,
                          sessions[k].current_log[1].raw_situation)
              /\ sessions[k].conversation_history[5].response =
                     <<"L","o","g"," ","i","s"," ","c","l","o","s","e","d",".">>
              /\ SessionInfo(k) # None
              /\ SessionInfo(k)[1].interaction_count = 5
              /\ SessionInfo(k)[1].state = COMPLETE

\* get_session_info was called on a session that took the path in five turns
C14_Witness ==
    /\ last.op = "get_session_info"
    /\ last.key \in DOMAIN sessions
    /\ Len(LastSession.conversation_history) = 5
    /\ PathInputs(LastSession.conversation_history, 5)
    /\ LastSession.conversation_history[4].state = CHECKING_OVERRIDE_RESULT
    /\ LastSession.state = COMPLETE

\* the last call generated an override sequence
IsOverride == last.op = "_generate_override_sequence"

\* the number of lines of a text
LineCount(s) == Cardinality({i \in 1..Len(s) : s[i] = "\n"}) + 1

\* the first five lines of the override sequence are the base steps
StartsWithBase(override_sequence) ==
    StartsWith(JoinLines(base_sequence), override_sequence)

\* the extra steps of a record: one for each check that holds, in the order
\* of the checks
ExtraSteps(log) ==
    (IF Contains(<<"c","h","e","s","t">>, Lower(log.somatic_cognitive_response))
     THEN <<StepChest>> ELSE <<>>)
    \o (IF Contains(<<"c","h","e","c","k","i","n","g">>, Lower(log.trigger))
        THEN <<StepChecking>> ELSE <<>>)
    \o (IF Contains(<<"a","n","x","i","e","t","y">>,
                    Lower(log.somatic_cognitive_response))
        THEN <<StepAnxiety>> ELSE <<>>)

\* C15 as stated: for every record _generate_override_sequence returns the
\* five base steps followed by at most one extra step, 5 or 6 numbered steps
\* in all, whatever combination of "chest" and "anxiety" in the somatic field
\* and "checking" in the trigger field holds.
C15_Original ==
    IsOverride
    => /\ StartsWithBase(last.override_sequence)
       /\ LineCount(last.override_sequence) \in {5, 6}

\* C15 amended: for every record _generate_override_sequence returns the five
\* base steps followed by one extra step for each of the three checks that
\* holds ("chest" in the somatic field, "checking" in the trigger field,
\* "anxiety" in the somatic field, in this order, each numbered 6), so
\* between 5 and 8 numbered steps.
C15_OneStepPerCheck ==
    IsOverride
    => /\ StartsWithBase(last.override_sequence)
       /\ last.override_sequence =
              JoinLines(base_sequence \o ExtraSteps(last.log))
       /\ LineCount(last.override_sequence) = 5 + Len(ExtraSteps(last.log))
       /\ LineCount(last.override_sequence) \in 5..8

\* the sequence of a record for which all three checks hold
C15_Witness ==
    /\ IsOverride
    /\ LineCount(last.override_sequence) = 8
    /\ Contains(<<"c","h","e","c","k","i","n","g">>, Lower(last.log.trigger))

\* the last call was create_structured_log
IsCreate == last.op = "create_structured_log"

\* C16: no field is ever empty: for every text, the record that
\* create_structured_log returns has a situation, a trigger, a
\* somatic_cognitive_response and an insight of length > 0.
C16_NoFieldEmpty ==
    IsCreate
    => /\ Len(last.log.situation) > 0
       /\ Len(last.log.trigger) > 0
       /\ Len(last.log.somatic_cognitive_response) > 0
       /\ Len(last.log.insight) > 0

\* found_triggers of each narrative: the candidate contexts of the primary
\* trigger patterns in the order they are found
FoundTriggersOf ==
    [text \in ExtractTexts |-> FoundTriggers(text, Lower(text))]

\* the length of a candidate's cleaned text
CleanedLen(candidate) == Len(_clean_and_capitalize(candidate[1]))

\* the first of the candidates whose cleaned text is longest
LongestCleaned(found_triggers) ==
    found_triggers[CHOOSE i \in 1..Len(found_triggers) :
                       /\ \A j \in 1..Len(found_triggers) :
                              CleanedLen(found_triggers[j]) <= CleanedLen(found_triggers[i])
                       /\ \A j \in 1..(i - 1) :
                              CleanedLen(found_triggers[j]) < CleanedLen(found_triggers[i])]

\* C17: when the primary trigger patterns yield two or more candidates,
\* _extract_trigger returns the candidate whose cleaned text (whitespace
\* collapsed, first letter capitalised) is longest, and among candidates of
\* equal cleaned length the first one found.
C17_LongestCleanedTrigger ==
    (IsCreate /\ Len(FoundTriggersOf[last.situation_text]) >= 2)
    => last.log.trigger =
           _clean_and_capitalize(LongestCleaned(FoundTriggersOf[last.situation_text])[1])

\* found_responses of each narrative: the somatic and intensity matches in
\* the order they are found
FoundResponsesOf ==
    [text \in ExtractTexts |->
        SomaticMatches(Lower(text)) \o IntensityMatches(Lower(text))]

\* the number of words of an entry
WordCount(entry) ==
    Cardinality({i \in 1..Len(entry) :
                    entry[i] \notin Whitespace /\ (i = 1 \/ entry[i - 1] \in Whitespace)})

\* the i-th match remains: it has several words, does not start with "and ",
\* and no earlier match is the same up to case
Remains(found_responses, i) ==
    /\ WordCount(found_responses[i]) > 1
    /\ ~StartsWith(StrAnd, found_responses[i])
    /\ \A j \in 1..(i - 1) : Lower(found_responses[j]) # Lower(found_responses[i])

RemainingAt(found_responses) ==
    {i \in 1..Len(found_responses) : Remains(found_responses, i)}

\* the matches that remain, in discovery order
Remaining(found_responses) ==
    [k \in 1..Cardinality(RemainingAt(found_responses)) |->
        found_responses[Kth(RemainingAt(found_responses), k)]]

RemainingOf == [text \in ExtractTexts |-> Remaining(FoundResponsesOf[text])]

\* the bullet line of each entry, joined by newlines
BulletLines(entries) ==
    JoinLines([k \in 1..Len(entries) |-> StrBullet \o Capitalize(entries[k])])

\* the output the claim describes for the entries that remain
SomaticOutput(remaining) ==
    IF Len(remaining) = 0 THEN GenericSomatic
    ELSE IF Len(remaining) = 1 THEN Capitalize(remaining[1])
    ELSE BulletLines(SubSeq(remaining, 1, Min(Len(remaining), 4)))

\* no line occurs twice
NoRepeat(lines) ==
    \A i \in 1..Len(lines) : \A j \in 1..Len(lines) : i # j => lines[i] # lines[j]

\* C18: after case-insensitive deduplication and the dropping of single-word
\* entries and of entries starting with "and ", the somatic output is the
\* fixed fallback string if nothing remains, the single entry capitalised
\* without bullet if one remains, and otherwise the bullet lines of the first
\* min(n, 4) remaining entries in discovery order joined by newlines; it never
\* has more than 4 lines and never repeats an entry.
C18_SomaticCapAndOrder ==
    IsCreate
    => /\ last.log.somatic_cognitive_response
              = SomaticOutput(RemainingOf[last.situation_text])
       /\ LineCount(last.log.somatic_cognitive_response) <= 4
       /\ NoRepeat(Split(last.log.somatic_cognitive_response, "\n"))

\* a narrative some of whose matches are dropped while more than four
\* remain, answered with four bullet lines
C18_Witness ==
    /\ IsCreate
    /\ Len(RemainingOf[last.situation_text]) > 4
    /\ Len(FoundResponsesOf[last.situation_text])
           > Len(RemainingOf[last.situation_text])
    /\ LineCount(last.log.somatic_cognitive_response) = 4
    /\ StartsWith(StrBullet, last.log.somatic_cognitive_response)

\* the keyword counts of each narrative, one per category
ScoresOf == [text \in ExtractTexts |-> PatternScores(Lower(text))]

\* the eight categories in their declared order
CategoryOrder ==
    << "sunk_cost", "anticipatory_vigilance", "emotional_pendulum",
       "compliance_reflex", "boundary_violation", "performance_anxiety",
       "family_dynamics", "financial_anxiety" >>

\* the template of each category, in the same order
CategoryTemplates ==
    << InsightSunkCost, InsightAnticipatoryVigilance, InsightEmotionalPendulum,
       InsightComplianceReflex, InsightBoundaryViolation, InsightPerformanceAnxiety,
       InsightFamilyDynamics, InsightFinancialAnxiety >>

\* category i has the highest count and no earlier category has it
EarliestHighest(score, i) ==
    /\ \A j \in 1..8 : score[j] <= score[i]
    /\ \A j \in 1..(i - 1) : score[j] < score[i]

\* the generic template that the somatic text selects
GenericTemplate(somatic_cognitive_response) ==
    IF \/ Contains(<<"c","h","e","s","t">>, Lower(somatic_cognitive_response))
       \/ Contains(<<"e","x","p","l","o","s","i","o","n">>, Lower(somatic_cognitive_response))
       \/ Contains(<<"b","u","r","n","i","n","g">>, Lower(somatic_cognitive_response))
    THEN InsightSomaticOverride
    ELSE IF \/ Contains(<<"a","n","x","i","e","t","y">>, Lower(somatic_cognitive_response))
            \/ Contains(<<"n","e","r","v","o","u","s">>, Lower(somatic_cognitive_response))
            \/ Contains(<<"s","t","r","e","s","s">>, Lower(somatic_cognitive_response))
    THEN InsightAnxiety
    ELSE InsightDefault

\* the insight of a record agrees with the counts of its narrative
InsightAgrees(score, log) ==
    /\ Len(score) = 8
    /\ \A i \in 1..8 :
           (score[i] > 0 /\ EarliestHighest(score, i))
           => log.insight = CategoryTemplates[i]
    /\ (\A i \in 1..8 : score[i] = 0)
       => log.insight = GenericTemplate(log.somatic_cognitive_response)

\* C19: _generate_insight emits the template of the category with the
\* highest keyword count, the earliest in the declared order among those tied
\* at the maximum; only if all eight counts are zero does it emit one of the
\* three generic templates, chosen by the somatic text.
C19_InsightSelection ==
    /\ [k \in 1..Len(pattern_indicators) |-> pattern_indicators[k].pattern_name]
           = CategoryOrder
    /\ IsCreate => InsightAgrees(ScoresOf[last.situation_text], last.log)

\* a narrative whose first two categories are tied at the highest count,
\* answered with the template of the first
C19_Witness ==
    /\ IsCreate
    /\ ScoresOf[last.situation_text][1] = 2
    /\ ScoresOf[last.situation_text][2] = 2
    /\ EarliestHighest(ScoresOf[last.situation_text], 1)
    /\ last.log.insight = InsightSunkCost

\* the state the affirmative branch of a state's handler leads to
AffirmativeTarget(state) ==
    IF state = CONFIRMING_LOG THEN ASKING_OVERRIDE_READY ELSE PROVIDING_OVERRIDE

\* the state the negative branch of a state's handler leads to
NegativeTarget(state) == IF state = CONFIRMING_LOG THEN INITIAL ELSE COMPLETE

\* the re-prompt of a state
Reprompt(state) ==
    IF state = CONFIRMING_LOG THEN RespConfirmAgain ELSE RespOverrideReadyAgain

\* C25: in CONFIRMING_LOG and in ASKING_OVERRIDE_READY a reply that is
\* affirmative, also one that is negative as well, takes the affirmative
\* transition; the negative transition is taken exactly when the reply is
\* negative and not affirmative; a reply that is neither leaves state and
\* record unchanged and returns the re-prompt.
C25_AffirmativeFirst ==
    [][\A k \in DOMAIN sessions' :
          (/\ last'.op = "process_user_input"
           /\ last'.key = k
           /\ Before(k).state \in {CONFIRMING_LOG, ASKING_OVERRIDE_READY})
          => /\ _is_affirmative(last'.user_input)
                 => sessions'[k].state = AffirmativeTarget(Before(k).state)
             /\ sessions'[k].state = NegativeTarget(Before(k).state)
                 <=> (/\ _is_negative(last'.user_input)
                      /\ ~_is_affirmative(last'.user_input))
             /\ (~_is_affirmative(last'.user_input) /\ ~_is_negative(last'.user_input))
                 => /\ sessions'[k].state = Before(k).state
                    /\ sessions'[k].current_log = Before(k).current_log
                    /\ last'.response = Reprompt(Before(k).state)]_vars

\* a reply that is affirmative and negative was given in
\* ASKING_OVERRIDE_READY and the override sequence was provided
C25_Witness ==
    /\ IsTurn
    /\ last.from = ASKING_OVERRIDE_READY
    /\ _is_affirmative(last.user_input)
    /\ _is_negative(last.user_input)
    /\ LastSession.state = PROVIDING_OVERRIDE
    /\ LastSession.current_log # None

\* the states whose handlers, or the handlers after them, read the record
RecordStates ==
    {CONFIRMING_LOG, ASKING_OVERRIDE_READY, PROVIDING_OVERRIDE,
     CHECKING_OVERRIDE_RESULT}

\* C24: after any sequence of start_session, process_user_input and
\* reset_session calls made one at a time, a session in CONFIRMING_LOG,
\* ASKING_OVERRIDE_READY, PROVIDING_OVERRIDE or CHECKING_OVERRIDE_RESULT has
\* a non-null current_log, so that _generate_override_sequence is never
\* called with a null record (no call raises) and the closing turn always
\* finds a record to annotate.
C24_RecordWhereUsed ==
    /\ \A k \in DOMAIN sessions :
           sessions[k].state \in RecordStates => sessions[k].current_log # None
    /\ ~last.raised
    /\ (IsTurn /\ last.from = ASKING_OVERRIDE_READY
            /\ LastSession.state = PROVIDING_OVERRIDE)
       => /\ LastSession.current_log # None
          /\ last.response =
                 StrOverrideSequence
                     \o _generate_override_sequence(LastSession.current_log[1])
                     \o StrExecuteSequence
    /\ (IsTurn /\ last.from = CHECKING_OVERRIDE_RESULT)
       => /\ LastSession.current_log # None
          /\ EndsWith(StrOverrideResult \o last.user_input,
                      LastSession.current_log[1].raw_situation)

\* the override sequence was provided for the second record of a session
\* whose first record was discarded
C24_Witness ==
    /\ IsTurn
    /\ last.from = ASKING_OVERRIDE_READY
    /\ LastSession.state = PROVIDING_OVERRIDE
    /\ LastSession.current_log # None
    /\ \E i \in 1..Len(LastSession.conversation_history) :
           LastSession.conversation_history[i].response = RespDiscarded

\* C26: after any sequence of start_session, process_user_input and
\* reset_session calls a session's completed_at is non-null exactly when its
\* state is COMPLETE, so that get_session_info reports no completed_at for a
\* session that get_active_sessions lists.
C26_CompletedAtMatchesState ==
    /\ \A k \in DOMAIN sessions :
           sessions[k].completed_at # None <=> sessions[k].state = COMPLETE
    /\ \A k \in ActiveSessions : SessionInfo(k)[1].completed_at = None

\* C27: after start_session(id) has returned key k, the table holds under k
\* a session in INITIAL with null record, empty history and null
\* completed_at, also when k was in the table before (whatever the state of
\* the session it held), and the session under every other key is unchanged.
C27_FreshSession ==
    [][last'.op = "start_session"
       => /\ last'.session_id # <<>> => last'.key = last'.session_id
          /\ last'.key # <<>>
          /\ DOMAIN sessions' = (DOMAIN sessions) \cup {last'.key}
          /\ sessions'[last'.key].session_id = last'.key
          /\ sessions'[last'.key].state = INITIAL
          /\ sessions'[last'.key].current_log = None
          /\ sessions'[last'.key].conversation_history = <<>>
          /\ sessions'[last'.key].completed_at = None
          /\ \A j \in (DOMAIN sessions) \ {last'.key} :
                 sessions'[j] = sessions[j]]_vars

\* start_session returned the generated key while the session "a" is
\* COMPLETE, with its record and its three interactions
C27_Witness ==
    /\ last.op = "start_session"
    /\ last.session_id = <<>>
    /\ LastSession.state = INITIAL
    /\ <<"a">> \in DOMAIN sessions
    /\ <<"a">> # last.key
    /\ sessions[<<"a">>].state = COMPLETE
    /\ sessions[<<"a">>].current_log # None
    /\ Len(sessions[<<"a">>].conversation_history) = 3

\* the three values of time_of_day
TimesOfDay ==
    { <<"m","o","r","n","i","n","g">>, <<"a","f","t","e","r","n","o","o","n">>,
      <<"e","v","e","n","i","n","g">> }

\* the last word of a header
LastWord(header) == SplitWhitespace(header)[Len(SplitWhitespace(header))]

\* C28 as stated: for every creation hour 0..23 the record's time_of_day is
\* one of morning, afternoon and evening, and the last word of its header is
\* the capitalised time_of_day.
C28_Original ==
    IsCreate
    => /\ last.log.time_of_day \in TimesOfDay
       /\ LastWord(last.log.header) = Capitalize(last.log.time_of_day)

\* C28 amended: for every creation hour 0..23 the record's time_of_day is one
\* of morning, afternoon and evening; for the hours 5..20 the last word of
\* its header is the capitalised time_of_day, and for the hours 21..23 and
\* 0..4 the header ends with "Night" while time_of_day is "evening".
C28_HeaderAndTimeOfDay ==
    IsCreate
    => /\ last.log.time_of_day \in TimesOfDay
       /\ (last.log.timestamp \div 60) % 24 \in 5..20
              => LastWord(last.log.header) = Capitalize(last.log.time_of_day)
       /\ (last.log.timestamp \div 60) % 24 \notin 5..20
              => /\ LastWord(last.log.header) = <<"N","i","g","h","t">>
                 /\ last.log.time_of_day = <<"e","v","e","n","i","n","g">>

\* a record created at 23:00, whose header ends with "Night"
C28_Witness ==
    /\ IsCreate
    /\ last.log.timestamp = 23 * 60
    /\ last.log.header =
           <<"A","u","g","u","s","t"," ","2","7",","," ","2","0","2","5"," ",
             "N","i","g","h","t">>
    /\ last.log.time_of_day = <<"e","v","e","n","i","n","g">>

\* the interaction is that of an intake turn, which created a record
IsIntake(interaction) == StartsWith(StrSituationLogged, interaction.response)

\* the log id an intake turn announced: what follows "Situation logged. ID: "
\* up to the end of the line
AnnouncedLogId(interaction) ==
    SubSeq(interaction.response, Len(StrSituationLogged) + 1,
           Find(<<"\n">>, interaction.response, 1) - 1)

\* C23: any two distinct records created by intake turns carry different
\* log ids: any two intake turns recorded in a session's history announced
\* different ids.
C23_LogIdsUnique ==
    \A k \in DOMAIN sessions :
        \A i \in 1..Len(sessions[k].conversation_history) :
            \A j \in 1..Len(sessions[k].conversation_history) :
                (/\ i < j
                 /\ IsIntake(sessions[k].conversation_history[i])
                 /\ IsIntake(sessions[k].conversation_history[j]))
                => AnnouncedLogId(sessions[k].conversation_history[i])
                       # AnnouncedLogId(sessions[k].conversation_history[j])

RECURSIVE Alone(_, _, _)
\* the session with key k after the first n turns of a history, run on their
\* own from a fresh session
Alone(k, history, n) ==
    IF n = 0 THEN ConversationSession(k, 0)
    ELSE ProcessTurn(Alone(k, history, n - 1), history[n].user_input,
                     history[n].timestamp).session

\* the session is what its own turns make of a fresh session
AsAlone(k, session) ==
    /\ session.state =
           Alone(k, session.conversation_history,
                 Len(session.conversation_history)).state
    /\ session.current_log =
           Alone(k, session.conversation_history,
                 Len(session.conversation_history)).current_log
    /\ session.conversation_history =
           Alone(k, session.conversation_history,
                 Len(session.conversation_history)).conversation_history

\* no record is held by two sessions: a record carries the key of its
\* session in its log id, and the records of two sessions differ
NoSharedRecord ==
    \A j \in DOMAIN sessions :
        sessions[j].current_log # None
        => /\ StartsWith(j \o <<"_">>, sessions[j].current_log[1].log_id)
           /\ \A k \in (DOMAIN sessions) \ {j} :
                  sessions[k].current_log # sessions[j].current_log

\* C22: a process_user_input or reset_session call on one session leaves
\* every other session as it was, no record is held by two sessions, and
\* after any interleaving of whole turns of different sessions each session
\* has the state, the record and the responses that its own turns give when
\* run alone.
C22_CrossSessionIndependence ==
    /\ [][\A j \in DOMAIN sessions :
              (/\ last'.op \in {"process_user_input", "reset_session"}
               /\ j # last'.key)
              => /\ j \in DOMAIN sessions'
                 /\ sessions'[j] = sessions[j]]_vars
    /\ [](NoSharedRecord /\ \A k \in DOMAIN sessions : AsAlone(k, sessions[k]))

\* a turn of session "a", now waiting for the override answer with its
\* record, while the session under the generated key is back in INITIAL
\* after two turns of its own
C22_Witness ==
    /\ IsTurn
    /\ last.key = <<"a">>
    /\ LastSession.state = ASKING_OVERRIDE_READY
    /\ LastSession.current_log # None
    /\ <<"u","1">> \in DOMAIN sessions
    /\ sessions[<<"u","1">>].state = INITIAL
    /\ Len(sessions[<<"u","1">>].conversation_history) = 2


----------------------------------------------------------------------------
(* C21: two calls on one session                                            *)

RECURSIVE TurnSequences(_)
\* the sequences of at most n replies
TurnSequences(n) ==
    IF n = 0 THEN { <<>> }
    ELSE TurnSequences(n - 1)
           \cup { Append(turns, user_input) :
                      turns \in { q \in TurnSequences(n - 1) : Len(q) = n - 1 },
                      user_input \in ShortTexts }

\* the sessions that turns made one after the other leave: the turns before
\* the callers start, then at most MaxCallsEach turns of each caller
SequentialSessions ==
    { AfterTurns(RaceKey, inputs \o turns, Len(inputs) + Len(turns)) :
          inputs \in StartInputs,
          turns \in TurnSequences(MaxCallsEach * Cardinality(Callers)) }

\* no call is in progress
Quiescent == \A caller \in Callers : Returned(last.calls[caller])

RECURSIVE Persisted(_)
\* the number of _save_session_to_file calls the callers in S made
Persisted(S) ==
    IF S = {} THEN 0
    ELSE Persisted(S \ {CHOOSE caller \in S : TRUE})
           + last.calls[CHOOSE caller \in S : TRUE].saves

\* the session awaits the override answer and has no record
AskingWithoutRecord ==
    /\ sessions[RaceKey].state = ASKING_OVERRIDE_READY
    /\ sessions[RaceKey].current_log = None

\* a state that turns made one after the other never reach: a call raised,
\* the closure was persisted twice, the session awaits the override answer
\* without a record, or the calls returned and left a session that no
\* sequence of turns leaves
Unsequential ==
    \/ \E caller \in Callers : last.calls[caller].raised
    \/ Persisted(Callers) > 1
    \/ AskingWithoutRecord
    \/ Quiescent /\ sessions[RaceKey] \notin SequentialSessions

\* C21: a state that no sequence of turns reaches arises only when the two
\* calls on the session are not serialized: while the callers take turns no
\* call raises, the closure is persisted at most once, the session never
\* awaits the override answer without a record, and the session the calls
\* leave is one that the same number of turns made one after the other leave.
C21_RaceOnlyWhenInterleaved == Unsequential => ~last.serialized

\* both calls returned, interleaved, and left the session awaiting the
\* override answer with no record
C21_Witness ==
    /\ ~last.serialized
    /\ Quiescent
    /\ \A caller \in Callers : last.calls[caller].made = 1
    /\ AskingWithoutRecord

\* the closure persisted twice and the record annotated twice
TwoOverrideResults ==
    /\ ~last.serialized
    /\ Quiescent
    /\ Persisted(Callers) = 2
    /\ sessions[RaceKey].current_log # None
    /\ Find(StrOverrideResult, sessions[RaceKey].current_log[1].raw_situation,
            Find(StrOverrideResult,
                 sessions[RaceKey].current_log[1].raw_situation, 1) + 1) > 0
====
